---- MODULE Spec2Model ----
\* Sonar metrics dashboard (streamlit_sonar_metrics.py): value normalisation,
\* record building, aggregation, highlighting and the fetch/display session.
EXTENDS Integers, Sequences, FiniteSets, TLC

\* ------------------------------------------------------------------ text
\* Python str values are sequences of one-character strings.  The alphabet
\* is the characters of the code points 1 to 254 without 96: Latin1[p] is
\* the character of code point p, and the empty string stands at 96.  (A
\* string of a module cannot hold the grave accent, nor U+0178, the capital
\* of the character 255.)  The functions of this section are the str
\* methods on this alphabet and are not defined outside it.

Latin1 ==
    << "", "", "", "", "", "", "", "", "\t", "\n", "", "\f",
       "\r", "", "", "", "", "", "", "", "", "", "", "",
       "", "", "", "", "", "", "", " ", "!", "\"", "#", "$",
       "%", "&", "'", "(", ")", "*", "+", ",", "-", ".", "/", "0",
       "1", "2", "3", "4", "5", "6", "7", "8", "9", ":", ";", "<",
       "=", ">", "?", "@", "A", "B", "C", "D", "E", "F", "G", "H",
       "I", "J", "K", "L", "M", "N", "O", "P", "Q", "R", "S", "T",
       "U", "V", "W", "X", "Y", "Z", "[", "\\", "]", "^", "_", "",
       "a", "b", "c", "d", "e", "f", "g", "h", "i", "j", "k", "l",
       "m", "n", "o", "p", "q", "r", "s", "t", "u", "v", "w", "x",
       "y", "z", "{", "|", "}", "~", "", "", "", "", "", "",
       "", "", "", "", "", "", "", "", "", "", "", "",
       "", "", "", "", "", "", "", "", "", "", "", "",
       "", "", "", " ", "¡", "¢", "£", "¤", "¥", "¦", "§", "¨",
       "©", "ª", "«", "¬", "­", "®", "¯", "°", "±", "²", "³", "´",
       "µ", "¶", "·", "¸", "¹", "º", "»", "¼", "½", "¾", "¿", "À",
       "Á", "Â", "Ã", "Ä", "Å", "Æ", "Ç", "È", "É", "Ê", "Ë", "Ì",
       "Í", "Î", "Ï", "Ð", "Ñ", "Ò", "Ó", "Ô", "Õ", "Ö", "×", "Ø",
       "Ù", "Ú", "Û", "Ü", "Ý", "Þ", "ß", "à", "á", "â", "ã", "ä",
       "å", "æ", "ç", "è", "é", "ê", "ë", "ì", "í", "î", "ï", "ð",
       "ñ", "ò", "ó", "ô", "õ", "ö", "÷", "ø", "ù", "ú", "û", "ü",
       "ý", "þ" >>

Alphabet == { Latin1[p] : p \in 1..Len(Latin1) } \ { "" }

\* v for a character of the alphabet, no value for another character.
OfAlphabet(c, v) == IF c \in Alphabet THEN v ELSE CHOOSE x \in {} : TRUE

\* ord(c)
Ord(c) == CHOOSE p \in 1..Len(Latin1) : Latin1[p] = c

LowerAlphabet == << "a","b","c","d","e","f","g","h","i","j","k","l","m",
                    "n","o","p","q","r","s","t","u","v","w","x","y","z" >>

UpperAlphabet == << "A","B","C","D","E","F","G","H","I","J","K","L","M",
                    "N","O","P","Q","R","S","T","U","V","W","X","Y","Z" >>

\* The small letters 224 to 254 (without the division sign 247) and their
\* capitals 192 to 222.
LowerLatin == { Latin1[p] : p \in (224..254) \ {247} }

UpperLatin == { Latin1[p] : p \in (192..222) \ {215} }

DigitChars == << "0","1","2","3","4","5","6","7","8","9" >>

\* The characters str.isspace() is true of.
Whitespace == { Latin1[p] : p \in (9..13) \cup (28..32) \cup {133, 160} }

IndexOf(c, alphabet) ==
    IF \E i \in 1..Len(alphabet) : alphabet[i] = c
    THEN CHOOSE i \in 1..Len(alphabet) : alphabet[i] = c
    ELSE 0

\* c.upper(): a str of one or two characters.  The capital of the micro
\* sign (181) is the Greek capital mu, the capital of the sharp s (223) is SS.
upper_char(c) ==
    IF IndexOf(c, LowerAlphabet) # 0 THEN << UpperAlphabet[IndexOf(c, LowerAlphabet)] >>
    ELSE IF c \in LowerLatin THEN << Latin1[Ord(c) - 32] >>
    ELSE IF c = Latin1[181] THEN << "Μ" >>
    ELSE IF c = Latin1[223] THEN << "S", "S" >>
    ELSE OfAlphabet(c, << c >>)

\* c.lower()
lower_char(c) ==
    IF IndexOf(c, UpperAlphabet) # 0 THEN LowerAlphabet[IndexOf(c, UpperAlphabet)]
    ELSE IF c \in UpperLatin THEN Latin1[Ord(c) + 32]
    ELSE OfAlphabet(c, c)

RECURSIVE upper(_)
upper(s) == IF s = << >> THEN << >> ELSE upper_char(Head(s)) \o upper(Tail(s))

lower(s) == [i \in 1..Len(s) |-> lower_char(s[i])]

\* The comparison of float() with the words inf, infinity and nan: only the
\* letters a to z are folded.
ascii_upper(s) ==
    [i \in 1..Len(s) |->
        IF IndexOf(s[i], LowerAlphabet) # 0 THEN UpperAlphabet[IndexOf(s[i], LowerAlphabet)]
        ELSE OfAlphabet(s[i], s[i])]

IsSpace(c) == OfAlphabet(c, c \in Whitespace)

RECURSIVE lstrip(_)
lstrip(s) == IF s # << >> /\ IsSpace(Head(s)) THEN lstrip(Tail(s)) ELSE s

RECURSIVE rstrip(_)
rstrip(s) ==
    IF s # << >> /\ IsSpace(s[Len(s)])
    THEN rstrip(SubSeq(s, 1, Len(s) - 1))
    ELSE s

strip(s) == rstrip(lstrip(s))

\* The decimal digits of the alphabet are 0 to 9.
IsDigit(c) == OfAlphabet(c, IndexOf(c, DigitChars) # 0)

DigitVal(c) == IndexOf(c, DigitChars) - 1

RECURSIVE DigitsToNat(_)
DigitsToNat(s) ==
    IF s = << >> THEN 0
    ELSE 10 * DigitsToNat(SubSeq(s, 1, Len(s) - 1)) + DigitVal(s[Len(s)])

RECURSIVE Pow10(_)
Pow10(k) == IF k <= 0 THEN 1 ELSE 10 * Pow10(k - 1)

RECURSIVE NatToDigits(_)
NatToDigits(n) ==
    IF n < 10 THEN << DigitChars[n + 1] >>
    ELSE NatToDigits(n \div 10) \o << DigitChars[(n % 10) + 1] >>

\* Position of the first occurrence of a character of cs in s, 0 when absent.
FirstOf(s, cs) ==
    IF \E i \in 1..Len(s) : s[i] \in cs
    THEN CHOOSE i \in 1..Len(s) : s[i] \in cs /\ \A j \in 1..(i - 1) : s[j] \notin cs
    ELSE 0

\* ---------------------------------------------------------------- values
\* A Python value: None, a str, an int, or a float.  A finite float is the
\* double nearest to n / 10^k (k >= 0, and n has no trailing zero that k
\* could drop), or negative zero, or one of inf, -inf, nan.  Numbers are
\* held in machine integers: a decimal of more than 9 significant digits
\* has no value here.  Doubles keep 15 significant decimal digits, so
\* on these decimals float() is one to one and keeps their order.

PyNone == [t |-> "none", s |-> << >>, n |-> 0, k |-> 0, c |-> "fin"]

PyStr(s) == [t |-> "str", s |-> s, n |-> 0, k |-> 0, c |-> "fin"]

PyInt(n) == [t |-> "int", s |-> << >>, n |-> n, k |-> 0, c |-> "fin"]

RECURSIVE PyFloat(_, _)
PyFloat(n, k) ==
    IF k > 0 /\ n % 10 = 0 THEN PyFloat(n \div 10, k - 1)
    ELSE [t |-> "float", s |-> << >>, n |-> n, k |-> k, c |-> "fin"]

NegZero == [t |-> "float", s |-> << >>, n |-> 0, k |-> 0, c |-> "nzero"]

PosInf == [t |-> "float", s |-> << >>, n |-> 0, k |-> 0, c |-> "inf"]

NegInf == [t |-> "float", s |-> << >>, n |-> 0, k |-> 0, c |-> "ninf"]

NaN == [t |-> "float", s |-> << >>, n |-> 0, k |-> 0, c |-> "nan"]

IsNone(v) == v.t = "none"

IsStr(v) == v.t = "str"

IsInt(v) == v.t = "int"

IsFloat(v) == v.t = "float"

S_NA == << "N", "/", "A" >>

NA == PyStr(S_NA)

\* The largest integer not above a finite number.
Floor(v) ==
    IF v.k > 9 THEN (IF v.n >= 0 THEN 0 ELSE 0 - 1) ELSE v.n \div Pow10(v.k)

\* Ordering of a number against an integer literal i, as Python orders
\* int and float values; every comparison with nan is false.
NumLt(v, i) ==
    CASE v.c = "nan" -> FALSE
      [] v.c = "inf" -> FALSE
      [] v.c = "ninf" -> TRUE
      [] OTHER -> Floor(v) < i

NumGe(v, i) ==
    CASE v.c = "nan" -> FALSE
      [] v.c = "inf" -> TRUE
      [] v.c = "ninf" -> FALSE
      [] OTHER -> Floor(v) >= i

\* ------------------------------------------------- float(str), int(float)
\* The builtin float() applied to a str: surrounding whitespace is dropped,
\* then [sign] (inf | infinity | nan | decimal [exponent]).  The result is
\* [ok |-> FALSE] for ValueError.  Digit groups may hold single underscores
\* between digits.

ValidDigitRun(s) ==
    /\ \A i \in 1..Len(s) : IsDigit(s[i]) \/ s[i] = "_"
    /\ \A i \in 1..Len(s) :
          s[i] = "_" => i > 1 /\ i < Len(s) /\ IsDigit(s[i - 1]) /\ IsDigit(s[i + 1])

DropUnderscores(s) == SelectSeq(s, LAMBDA ch : ch # "_")

RECURSIVE DropLeadingZeros(_)
DropLeadingZeros(s) ==
    IF s # << >> /\ Head(s) = "0" THEN DropLeadingZeros(Tail(s)) ELSE s

RECURSIVE DropTrailingZeros(_)
DropTrailingZeros(s) ==
    IF s # << >> /\ s[Len(s)] = "0" THEN DropTrailingZeros(SubSeq(s, 1, Len(s) - 1)) ELSE s

\* s split around position i (0 when absent): << before, after, found >>.
SplitAt(s, i) ==
    IF i = 0 THEN << s, << >>, FALSE >>
    ELSE << SubSeq(s, 1, i - 1), SubSeq(s, i + 1, Len(s)), TRUE >>

\* The exponent of a decimal.  The doubles end before 10^309 and 10^-324,
\* so an exponent of more than 5 digits decides the result by its sign alone.
SignedDigits(negative, ds) ==
    IF ds # << >> /\ ValidDigitRun(ds)
    THEN [ok |-> TRUE,
          e |-> LET mag == DropLeadingZeros(DropUnderscores(ds))
                    abs == IF Len(mag) > 5 THEN Pow10(5) ELSE DigitsToNat(mag)
                IN  IF negative THEN 0 - abs ELSE abs]
    ELSE [ok |-> FALSE, e |-> 0]

ParseExponent(x) ==
    IF x # << >> /\ Head(x) \in {"+", "-"}
    THEN SignedDigits(Head(x) = "-", Tail(x))
    ELSE SignedDigits(FALSE, x)

\* The float of 0.d1d2... * 10^point, digits being d1 d2 ... without leading
\* and trailing zeros.  From 10^309 on the nearest double is inf, below
\* 10^-324 it is 0.  (In between, a decimal from 1.8 * 10^308 on is inf as
\* well; this one and the other decimals beyond the machine integers have
\* no value here.)
FloatOfDigits(digits, point) ==
    IF digits = << >> THEN PyFloat(0, 0)
    ELSE IF point > 309 THEN PosInf
    ELSE IF point < 0 - 323 THEN PyFloat(0, 0)
    ELSE IF point >= Len(digits)
         THEN PyFloat(DigitsToNat(digits) * Pow10(point - Len(digits)), 0)
         ELSE PyFloat(DigitsToNat(digits), Len(digits) - point)

\* The mantissa int_part.frac_part times 10^e.
ParseMantissa(parts, expo) ==
    IF /\ expo.ok
       /\ ValidDigitRun(parts[1])
       /\ ValidDigitRun(parts[2])
       /\ (parts[1] # << >> \/ parts[2] # << >>)
    THEN [ok |-> TRUE,
          v |-> FloatOfDigits(
                    DropTrailingZeros(DropLeadingZeros(
                        DropUnderscores(parts[1]) \o DropUnderscores(parts[2]))),
                    Len(DropLeadingZeros(DropUnderscores(parts[1]) \o DropUnderscores(parts[2])))
                        - Len(DropUnderscores(parts[2])) + expo.e)]
    ELSE [ok |-> FALSE, v |-> PyNone]

ParseDecimal(b) ==
    LET parts == SplitAt(b, FirstOf(b, {"e", "E"}))
    IN  ParseMantissa(SplitAt(parts[1], FirstOf(parts[1], {"."})),
                      IF parts[3] THEN ParseExponent(parts[2]) ELSE [ok |-> TRUE, e |-> 0])

\* -v of a float
Negate(v) ==
    CASE v.c = "inf" -> NegInf
      [] v.c = "ninf" -> PosInf
      [] v.c = "nan" -> NaN
      [] v.c = "nzero" -> PyFloat(0, 0)
      [] OTHER -> IF v.n = 0 THEN NegZero ELSE PyFloat(0 - v.n, v.k)

NegateParsed(parsed) ==
    IF parsed.ok THEN [ok |-> TRUE, v |-> Negate(parsed.v)] ELSE parsed

ParseMagnitude(body) ==
    IF ascii_upper(body) \in { <<"I","N","F">>, <<"I","N","F","I","N","I","T","Y">> }
    THEN [ok |-> TRUE, v |-> PosInf]
    ELSE IF ascii_upper(body) = <<"N","A","N">>
         THEN [ok |-> TRUE, v |-> NaN]
         ELSE ParseDecimal(body)

ParseSigned(t) ==
    IF t # << >> /\ Head(t) = "-" THEN NegateParsed(ParseMagnitude(Tail(t)))
    ELSE IF t # << >> /\ Head(t) = "+" THEN ParseMagnitude(Tail(t))
    ELSE ParseMagnitude(t)

\* The whitespace float() drops around the number: the ASCII separators
\* 28 to 31, which str.strip drops, are not part of it.
FloatSpace == Whitespace \ { Latin1[p] : p \in 28..31 }

RECURSIVE float_lstrip(_)
float_lstrip(s) ==
    IF s # << >> /\ OfAlphabet(Head(s), Head(s) \in FloatSpace) THEN float_lstrip(Tail(s)) ELSE s

RECURSIVE float_rstrip(_)
float_rstrip(s) ==
    IF s # << >> /\ OfAlphabet(s[Len(s)], s[Len(s)] \in FloatSpace)
    THEN float_rstrip(SubSeq(s, 1, Len(s) - 1))
    ELSE s

float_of_str(s) == ParseSigned(float_rstrip(float_lstrip(s)))

FloatResult(parsed) ==
    IF parsed.ok THEN [exc |-> "", v |-> parsed.v] ELSE [exc |-> "ValueError", v |-> PyNone]

\* float(value): None raises TypeError, a str is parsed.
float_of(value) ==
    IF IsStr(value) THEN FloatResult(float_of_str(value.s))
    ELSE IF IsNone(value) THEN [exc |-> "TypeError", v |-> PyNone]
    ELSE IF IsInt(value) THEN [exc |-> "", v |-> PyFloat(value.n, 0)]
    ELSE [exc |-> "", v |-> value]

\* The magnitude of a finite float cut to an integer.
Truncate(f) ==
    IF f.k > 9 THEN 0
    ELSE IF f.n >= 0 THEN f.n \div Pow10(f.k)
    ELSE 0 - ((0 - f.n) \div Pow10(f.k))

\* Variant: the float is rounded to the nearest integer.
int_of_float_rounded(f) ==
    CASE f.c = "nan" -> [exc |-> "ValueError", v |-> PyNone]
      [] f.c \in {"inf", "ninf"} -> [exc |-> "OverflowError", v |-> PyNone]
      [] OTHER -> [exc |-> "", v |-> PyInt(Truncate(PyFloat(2 * f.n, f.k))
                                           - Truncate(PyFloat(f.n, f.k)))]

\* int(f) of a float: truncation toward zero; inf raises OverflowError and
\* nan raises ValueError.
int_of_float(f) ==
    CASE f.c = "nan" -> [exc |-> "ValueError", v |-> PyNone]
      [] f.c \in {"inf", "ninf"} -> [exc |-> "OverflowError", v |-> PyNone]
      [] OTHER -> [exc |-> "", v |-> PyInt(Truncate(f))]

\* round(f, places) of a float is the multiple of 10^-places nearest to the
\* double f.  The decimal of f decides, unless it lies halfway between two
\* multiples: it is then (2q + 1) / (2 * 10^places), and the double is
\* RN(m / 5^places) / 2^(places + 1) for m = 2q + 1, RN rounding to 53
\* bits.  When 5^places divides m the double is the decimal and the tie goes
\* to the even multiple; otherwise the double lies above or below the
\* decimal, as RN rounds m / 5^places up or down.

RECURSIVE Pow5(_)
Pow5(j) == IF j <= 0 THEN 1 ELSE 5 * Pow5(j - 1)

RECURSIVE Pow2Mod(_, _)
Pow2Mod(p, f) == IF p <= 0 THEN 1 % f ELSE (2 * Pow2Mod(p - 1, f)) % f

\* The e with 2^e <= m / f < 2^(e + 1), found from e = 0 by doubling.
RECURSIVE Log2Up(_, _, _)
Log2Up(m, cur, e) == IF cur <= m \div 2 THEN Log2Up(m, 2 * cur, e + 1) ELSE e

RECURSIVE Log2Down(_, _, _)
Log2Down(cur, f, e) == IF cur < f THEN Log2Down(2 * cur, f, e - 1) ELSE e

BinaryExponent(m, f) == IF m >= f THEN Log2Up(m, f, 0) ELSE Log2Down(m, f, 0)

\* RN(m / f) > m / f: the bits of m / f after the 53rd are more than half.
RoundsUp(m, f) == 2 * (((m % f) * Pow2Mod(52 - BinaryExponent(m, f), f)) % f) > f

\* The multiple of unit = 10^(k - places) nearest to the double of a / 10^k.
NearestMultiple(a, unit, f) ==
    IF 2 * (a % unit) < unit THEN a \div unit
    ELSE IF 2 * (a % unit) > unit THEN (a \div unit) + 1
    ELSE IF (2 * (a \div unit) + 1) % f = 0
         THEN (IF (a \div unit) % 2 = 0 THEN a \div unit ELSE (a \div unit) + 1)
         ELSE (IF RoundsUp(2 * (a \div unit) + 1, f) THEN (a \div unit) + 1 ELSE a \div unit)

SignedFloat(negative, q, places) ==
    IF q = 0 THEN (IF negative THEN NegZero ELSE PyFloat(0, 0))
    ELSE PyFloat(IF negative THEN 0 - q ELSE q, places)

RoundToUnit(f, places) ==
    IF f.k - places > 9 THEN SignedFloat(f.n < 0, 0, places)
    ELSE SignedFloat(f.n < 0,
                     NearestMultiple(IF f.n < 0 THEN 0 - f.n ELSE f.n,
                                     Pow10(f.k - places), Pow5(places)),
                     places)

\* inf, nan, negative zero and the floats that are multiples already are
\* returned unchanged.
round_float(f, places) ==
    IF f.c # "fin" \/ f.k <= places THEN f ELSE RoundToUnit(f, places)

\* ------------------------------------------------ convert_to_numeric_or_na
\* as_type is "int", "float" or "none"; decimal_places is a number of places
\* or NoPlaces for None.  The result is [exc, v]: exc is "" for a normal
\* return of v, or the name of the exception that escapes the function.

NoPlaces == 0 - 1

Returns(v) == [exc |-> "", v |-> v]

Raises(e) == [exc |-> e, v |-> PyNone]

CaughtByConvert == {"ValueError", "TypeError"}

\* The body of the try statement, f being float(value).
ConvertBody(f, value, as_type, decimal_places) ==
    IF as_type = "int" THEN
        IF f.exc # "" THEN Raises(f.exc) ELSE int_of_float(f.v)
    ELSE IF as_type = "float" THEN
        IF f.exc # "" THEN Raises(f.exc)
        ELSE IF decimal_places # NoPlaces
             THEN Returns(round_float(f.v, decimal_places))
             ELSE Returns(f.v)
    ELSE Returns(value)

ExceptClause(result) ==
    IF result.exc \in CaughtByConvert THEN Returns(NA) ELSE result

convert_to_numeric_or_na(value, as_type, decimal_places) ==
    IF IsNone(value) \/ (IsStr(value) /\ upper(strip(value.s)) = S_NA)
    THEN Returns(NA)
    ELSE ExceptClause(ConvertBody(float_of(value), value, as_type, decimal_places))

\* ------------------------------------------------------- record building
\* A measure of the metrics source: [metric, has_value, value]; has_value is
\* FALSE for a measure object without a "value" member.  A project record:
\* [name, key, metrics, last_analysis_date], as process_project returns it.

metric_keys_str ==
    << "alert_status", "ncloc", "bugs", "reliability_rating", "vulnerabilities",
       "security_rating", "security_review_rating", "code_smells", "sqale_rating",
       "duplicated_lines_density", "coverage" >>

excel_int_metrics ==
    { "ncloc", "bugs", "reliability_rating", "vulnerabilities", "security_rating",
      "security_review_rating", "code_smells", "sqale_rating" }

excel_float_metrics == { "duplicated_lines_density", "coverage" }

ui_numeric_metrics ==
    [k \in excel_int_metrics \cup excel_float_metrics |->
        IF k \in { "duplicated_lines_density", "coverage" } THEN "float" ELSE "int"]

RatingHeaders ==
    << "Reliability Rating (A-E)", "Security Rating (A-E)",
       "Maintainability Rating (A-E)", "Security Hotspot Rating (A-E)" >>

RatingSources ==
    << "reliability_rating", "security_rating", "sqale_rating", "security_review_rating" >>

\* Variant: the header of the date column is left out.
create_headers_without_date(metric_keys) ==
    << "Project Name", "Project Key" >> \o metric_keys \o RatingHeaders

create_headers(metric_keys) ==
    << "Project Name", "Project Key" >> \o metric_keys
        \o RatingHeaders \o << "last_analysis_date" >>

RATING_MAP ==
    [k \in { <<"1",".","0">>, <<"2",".","0">>, <<"3",".","0">>, <<"4",".","0">>,
             <<"5",".","0">>, S_NA } |->
        CASE k = <<"1",".","0">> -> PyStr(<<"A">>)
          [] k = <<"2",".","0">> -> PyStr(<<"B">>)
          [] k = <<"3",".","0">> -> PyStr(<<"C">>)
          [] k = <<"4",".","0">> -> PyStr(<<"D">>)
          [] k = <<"5",".","0">> -> PyStr(<<"E">>)
          [] OTHER -> NA]

\* Variant: the code is normalised to a number before the lookup.
rating_map_get_normalised(code) ==
    LET f == float_of(code)
    IN  IF f.exc = "" /\ f.v.c = "fin" /\ f.v.k = 0 /\ f.v.n \in 1..5
        THEN PyStr(<< <<"A","B","C","D","E">>[f.v.n] >>)
        ELSE NA

\* RATING_MAP.get(code, "N/A")
rating_map_get(code) ==
    IF IsStr(code) /\ code.s \in DOMAIN RATING_MAP THEN RATING_MAP[code.s] ELSE NA

\* {metric["metric"]: metric["value"] for metric in metrics}: the last
\* measure of a key wins; a measure without "value" raises KeyError.
metrics_map_of(metrics) ==
    IF \E i \in 1..Len(metrics) : ~metrics[i].has_value
    THEN [exc |-> "KeyError", m |-> << >>]
    ELSE [exc |-> "",
          m |-> [k \in {metrics[i].metric : i \in 1..Len(metrics)} |->
                    LET last == CHOOSE i \in 1..Len(metrics) :
                                    /\ metrics[i].metric = k
                                    /\ \A j \in (i + 1)..Len(metrics) : metrics[j].metric # k
                    IN  metrics[last].value]]

\* metrics_map.get(key, default)
map_get(m, k, default) == IF k \in DOMAIN m THEN m[k] ELSE default

\* The cell of one requested metric key in the Excel detail row.
excel_metric_cell(m, metric_key) ==
    LET value == map_get(m, metric_key, PyNone)
    IN  IF metric_key \in excel_int_metrics
        THEN convert_to_numeric_or_na(value, "int", NoPlaces)
        ELSE IF metric_key \in excel_float_metrics
             THEN convert_to_numeric_or_na(value, "float", 1)
             ELSE Returns(IF ~IsNone(value) THEN value ELSE NA)

rating_letters(m) == [i \in 1..4 |-> rating_map_get(map_get(m, RatingSources[i], NA))]

\* The first exception raised while the cells are computed in order.
FirstException(cells) ==
    cells[CHOOSE i \in 1..Len(cells) :
              /\ cells[i].exc # ""
              /\ \A j \in 1..(i - 1) : cells[j].exc = ""].exc

ExcelRowOfCells(project, m, cells) ==
    IF \E i \in 1..Len(cells) : cells[i].exc # ""
    THEN [exc |-> FirstException(cells), row |-> << >>]
    ELSE [exc |-> "",
          row |-> << project.name, project.key >>
                    \o [i \in 1..Len(cells) |-> cells[i].v]
                    \o rating_letters(m)
                    \o << project.last_analysis_date >>]

ExcelRowOfMap(project, metric_keys, mm) ==
    IF mm.exc # "" THEN [exc |-> mm.exc, row |-> << >>]
    ELSE ExcelRowOfCells(project, mm.m,
             [i \in 1..Len(metric_keys) |-> excel_metric_cell(mm.m, metric_keys[i])])

\* One iteration of the loop of populate_sheet_with_data: the row appended
\* for a project, or the exception that escapes.
populate_row(project, metric_keys) ==
    ExcelRowOfMap(project, metric_keys, metrics_map_of(project.metrics))

\* populate_sheet_with_data: rows are appended project by project; an
\* exception leaves the loop with the rows appended so far.
RECURSIVE populate_rows(_, _, _)
populate_rows(rows, projects_data, metric_keys) ==
    IF projects_data = << >> THEN [exc |-> "", rows |-> rows]
    ELSE IF populate_row(Head(projects_data), metric_keys).exc # ""
         THEN [exc |-> populate_row(Head(projects_data), metric_keys).exc, rows |-> rows]
         ELSE populate_rows(Append(rows, populate_row(Head(projects_data), metric_keys).row),
                            Tail(projects_data), metric_keys)

populate_sheet_with_data(sheet, projects_data, metric_keys) ==
    LET r == populate_rows(sheet.rows, projects_data, metric_keys)
    IN  [exc |-> r.exc, sheet |-> [sheet EXCEPT !.rows = r.rows]]

\* A worksheet is its header row and its data rows.
new_sheet(headers) == [headers |-> headers, rows |-> << >>]

max_row(sheet) == 1 + Len(sheet.rows)

max_column(sheet) == Len(sheet.headers)

\* ------------------------------------------------------------ aggregation

find_column_index(sheet, column_name) == IndexOf(column_name, sheet.headers)

\* counts[b] after the loop over the rows: the number of rows whose cell
\* incremented b.  buckets[i] is the label row i incremented, "" for none.
CountBy(labels, buckets) ==
    [b \in labels |-> Cardinality({i \in 1..Len(buckets) : buckets[i] = b})]

QualityGateLabels == { "OK", "ERROR", "N/A" }

CoverageLabels == { "< 10%", "10% - 30%", "30% - 50%", "50% - 80%", "> 80%", "N/A" }

DuplicationLabels == { "< 3%", "3% - 5%", "5% - 10%", "10% - 20%", "> 20%", "N/A" }

RatingLabels == { "A", "B", "C", "D", "E", "N/A" }

\* Variant: the status is compared without regard to case.
quality_gate_bucket_any_case(value) ==
    IF IsStr(value) /\ upper(value.s) = <<"O","K">> THEN "OK"
    ELSE IF IsStr(value) /\ upper(value.s) = <<"E","R","R","O","R">> THEN "ERROR"
    ELSE "N/A"

quality_gate_bucket(value) ==
    IF value = PyStr(<<"O","K">>) THEN "OK"
    ELSE IF value = PyStr(<<"E","R","R","O","R">>) THEN "ERROR"
    ELSE "N/A"

coverage_bucket(value) ==
    IF IsInt(value) \/ IsFloat(value) THEN
        IF NumLt(value, 10) THEN "< 10%"
        ELSE IF NumGe(value, 10) /\ NumLt(value, 30) THEN "10% - 30%"
        ELSE IF NumGe(value, 30) /\ NumLt(value, 50) THEN "30% - 50%"
        ELSE IF NumGe(value, 50) /\ NumLt(value, 80) THEN "50% - 80%"
        ELSE IF NumGe(value, 80) THEN "> 80%"
        ELSE ""
    ELSE "N/A"

duplication_bucket(value) ==
    IF IsInt(value) \/ IsFloat(value) THEN
        IF NumLt(value, 3) THEN "< 3%"
        ELSE IF NumGe(value, 3) /\ NumLt(value, 5) THEN "3% - 5%"
        ELSE IF NumGe(value, 5) /\ NumLt(value, 10) THEN "5% - 10%"
        ELSE IF NumGe(value, 10) /\ NumLt(value, 20) THEN "10% - 20%"
        ELSE IF NumGe(value, 20) THEN "> 20%"
        ELSE ""
    ELSE "N/A"

\* Variant: only the letters A to E are counted.
rating_bucket_letters_only(value) ==
    IF IsStr(value) /\ value.s \in { <<"A">>, <<"B">>, <<"C">>, <<"D">>, <<"E">> }
    THEN value.s[1]
    ELSE ""

\* `if value in counts: counts[value] += 1`, no else branch.
rating_bucket(value) ==
    IF IsStr(value) /\ value.s \in { <<"A">>, <<"B">>, <<"C">>, <<"D">>, <<"E">> }
    THEN value.s[1]
    ELSE IF value = NA THEN "N/A"
    ELSE ""

calculate_quality_gate_counts(sheet, col_index) ==
    CountBy(QualityGateLabels, [i \in 1..Len(sheet.rows) |-> quality_gate_bucket(sheet.rows[i][col_index])])

calculate_coverage_counts(sheet, col_index) ==
    CountBy(CoverageLabels, [i \in 1..Len(sheet.rows) |-> coverage_bucket(sheet.rows[i][col_index])])

calculate_duplication_counts(sheet, col_index) ==
    CountBy(DuplicationLabels, [i \in 1..Len(sheet.rows) |-> duplication_bucket(sheet.rows[i][col_index])])

calculate_rating_counts(sheet, col_index) ==
    CountBy(RatingLabels, [i \in 1..Len(sheet.rows) |-> rating_bucket(sheet.rows[i][col_index])])

\* A dimension whose column is not found is left out of the summary.
Absent == [b \in {} |-> 0]

quality_gate_dimension(sheet) ==
    LET idx == find_column_index(sheet, "alert_status")
    IN  IF idx # 0 THEN calculate_quality_gate_counts(sheet, idx) ELSE Absent

coverage_dimension(sheet) ==
    LET idx == find_column_index(sheet, "coverage")
    IN  IF idx # 0 THEN calculate_coverage_counts(sheet, idx) ELSE Absent

rating_dimension(sheet, column_name) ==
    LET idx == find_column_index(sheet, column_name)
    IN  IF idx # 0 THEN calculate_rating_counts(sheet, idx) ELSE Absent

duplication_dimension(sheet) ==
    LET idx == find_column_index(sheet, "duplicated_lines_density")
    IN  IF idx # 0 THEN calculate_duplication_counts(sheet, idx) ELSE Absent

generate_summary_data(metrics_sheet, org_name) ==
    [ app_name |-> org_name,
      total_repos |-> max_row(metrics_sheet) - 1,
      quality_gate |-> quality_gate_dimension(metrics_sheet),
      coverage |-> coverage_dimension(metrics_sheet),
      reliability |-> rating_dimension(metrics_sheet, RatingHeaders[1]),
      security |-> rating_dimension(metrics_sheet, RatingHeaders[2]),
      maintainability |-> rating_dimension(metrics_sheet, RatingHeaders[3]),
      hotspot |-> rating_dimension(metrics_sheet, RatingHeaders[4]),
      duplication |-> duplication_dimension(metrics_sheet) ]

DimensionNames ==
    { "quality_gate", "coverage", "reliability", "security", "maintainability",
      "hotspot", "duplication" }

RECURSIVE SumOver(_, _)
SumOver(f, S) ==
    IF S = {} THEN 0
    ELSE LET x == CHOOSE y \in S : TRUE IN f[x] + SumOver(f, S \ {x})

SumCounts(counts) == SumOver(counts, DOMAIN counts)

\* ----------------------------------------------------------- highlighting

\* Variant: the last column is checked too.
excel_row_flagged_to_last(row) ==
    \A c \in 3..Len(row) : row[c] = NA

\* highlight_na_rows_excel: the data rows that get the light red fill.
excel_row_flagged(row) ==
    \A c \in 3..(Len(row) - 1) : row[c] = NA

highlight_na_rows_excel(sheet) ==
    {i \in 1..Len(sheet.rows) :
        excel_row_flagged([c \in 1..max_column(sheet) |-> sheet.rows[i][c]])}

\* ----------------------------------------------------------------- UI rows

\* The cell of one requested metric key in the UI row (fetch loop).
ui_metric_cell(m, metric_key) ==
    LET value == map_get(m, metric_key, PyNone)
        target_type == IF metric_key \in DOMAIN ui_numeric_metrics
                       THEN ui_numeric_metrics[metric_key] ELSE "none"
    IN  IF target_type = "float" THEN convert_to_numeric_or_na(value, "float", 1)
        ELSE IF target_type = "int" THEN convert_to_numeric_or_na(value, "int", NoPlaces)
        ELSE Returns(IF ~IsNone(value) THEN value ELSE NA)

ui_rating_letters(m) == [i \in 1..4 |-> rating_map_get(map_get(m, RatingSources[i], NA))]

UiColumns(metric_keys) == {create_headers(metric_keys)[i] : i \in 1..(Len(metric_keys) + 7)}

UiRowOfCells(project_data, metric_keys, m, cells) ==
    IF \E i \in 1..Len(cells) : cells[i].exc # ""
    THEN [exc |-> FirstException(cells), row |-> << >>]
    ELSE [exc |-> "",
          row |-> [col \in UiColumns(metric_keys) |->
              CASE col = "Project Name" -> project_data.name
                [] col = "Project Key" -> project_data.key
                [] col = "last_analysis_date" ->
                     IF ~IsNone(project_data.last_analysis_date)
                     THEN project_data.last_analysis_date ELSE NA
                [] IndexOf(col, RatingHeaders) # 0 ->
                     ui_rating_letters(m)[IndexOf(col, RatingHeaders)]
                [] OTHER -> cells[IndexOf(col, metric_keys)].v]]

UiRowOfMap(project_data, metric_keys, mm) ==
    IF mm.exc # "" THEN [exc |-> mm.exc, row |-> << >>]
    ELSE UiRowOfCells(project_data, metric_keys, mm.m,
             [i \in 1..Len(metric_keys) |-> ui_metric_cell(mm.m, metric_keys[i])])

\* The ui_row dict built in the fetch loop for one project_data, or the
\* exception that escapes into the except clause of the loop.
build_ui_row(project_data, metric_keys) ==
    UiRowOfMap(project_data, metric_keys, metrics_map_of(project_data.metrics))

\* f"{x:.1f}" of a number: the sign, the integer digits, the point and one
\* digit of the value rounded to one place.
FormatScaled(negative, a, k) ==
    PyStr((IF negative THEN << "-" >> ELSE << >>)
            \o (IF k = 0 THEN NatToDigits(a) \o << ".", "0" >>
                ELSE NatToDigits(a \div 10) \o << "." >> \o NatToDigits(a % 10)))

FormatRounded(r) ==
    FormatScaled(r.c = "nzero" \/ r.n < 0, IF r.n < 0 THEN 0 - r.n ELSE r.n, r.k)

format_1f(x) ==
    IF IsFloat(x) /\ x.c = "inf" THEN PyStr(<<"i","n","f">>)
    ELSE IF IsFloat(x) /\ x.c = "ninf" THEN PyStr(<<"-","i","n","f">>)
    ELSE IF IsFloat(x) /\ x.c = "nan" THEN PyStr(<<"n","a","n">>)
    ELSE IF IsInt(x) THEN FormatRounded(x)
    ELSE FormatRounded(round_float(x, 1))

\* The lambda applied to the coverage and duplication columns before display.
format_percentage_cell(x) ==
    IF (IsFloat(x) \/ IsInt(x)) /\ ~(IsFloat(x) /\ x.c = "nan") THEN format_1f(x) ELSE x

display_row(ui_row) ==
    [col \in DOMAIN ui_row |->
        IF col \in { "duplicated_lines_density", "coverage" }
        THEN format_percentage_cell(ui_row[col])
        ELSE ui_row[col]]

cols_to_check ==
    { "alert_status", "ncloc", "bugs", "reliability_rating", "vulnerabilities",
      "security_rating", "security_review_rating", "code_smells", "sqale_rating",
      "duplicated_lines_density", "coverage" }
    \cup {RatingHeaders[i] : i \in 1..4}

\* pd.isna(val)
pd_isna(val) == IsNone(val) \/ (IsFloat(val) /\ val.c = "nan")

\* highlight_na_rows_dataframe: TRUE when the row gets HIGHLIGHT_NA_ROWS.
highlight_na_rows_dataframe(row) ==
    LET existing_cols_to_check == cols_to_check \cap DOMAIN row
    IN  IF existing_cols_to_check = {} THEN FALSE
        ELSE \A col \in existing_cols_to_check :
                ~( \/ pd_isna(row[col])
                   \/ IsNone(row[col])
                   \/ (IsStr(row[col]) /\ upper(strip(row[col].s)) # S_NA) )

\* ------------------------------------------------------ summary highlighting

\* summary_data.get(key, 0) for the key of one bucket of a dimension.
summary_get(counts, label) == IF label \in DOMAIN counts THEN counts[label] ELSE 0

\* The indexed data frames of the aggregated summary: index label and Count.
quality_gate_df(counts) ==
    << [index |-> <<"P","a","s","s","e","d">>, count |-> summary_get(counts, "OK")],
       [index |-> <<"F","a","i","l","e","d">>, count |-> summary_get(counts, "ERROR")],
       [index |-> <<"N","o","t"," ","C","o","m","p","u","t","e","d">>, count |-> summary_get(counts, "N/A")] >>

coverage_df(counts) ==
    << [index |-> <<"<"," ","1","0","%">>, count |-> summary_get(counts, "< 10%")],
       [index |-> <<"1","0","%"," ","-"," ","3","0","%">>, count |-> summary_get(counts, "10% - 30%")],
       [index |-> <<"3","0","%"," ","-"," ","5","0","%">>, count |-> summary_get(counts, "30% - 50%")],
       [index |-> <<"5","0","%"," ","-"," ","8","0","%">>, count |-> summary_get(counts, "50% - 80%")],
       [index |-> <<">"," ","8","0","%">>, count |-> summary_get(counts, "> 80%")],
       [index |-> <<"N","/","A">>, count |-> summary_get(counts, "N/A")] >>

duplication_df(counts) ==
    << [index |-> <<"<"," ","3","%">>, count |-> summary_get(counts, "< 3%")],
       [index |-> <<"3","%"," ","-"," ","5","%">>, count |-> summary_get(counts, "3% - 5%")],
       [index |-> <<"5","%"," ","-"," ","1","0","%">>, count |-> summary_get(counts, "5% - 10%")],
       [index |-> <<"1","0","%"," ","-"," ","2","0","%">>, count |-> summary_get(counts, "10% - 20%")],
       [index |-> <<">"," ","2","0","%">>, count |-> summary_get(counts, "> 20%")],
       [index |-> <<"N","/","A">>, count |-> summary_get(counts, "N/A")] >>

ratings_df(counts) ==
    << [index |-> <<"A">>, count |-> summary_get(counts, "A")],
       [index |-> <<"B">>, count |-> summary_get(counts, "B")],
       [index |-> <<"C">>, count |-> summary_get(counts, "C")],
       [index |-> <<"D">>, count |-> summary_get(counts, "D")],
       [index |-> <<"E">>, count |-> summary_get(counts, "E")],
       [index |-> <<"N","/","A">>, count |-> summary_get(counts, "N/A")] >>

\* The style functions: TRUE where the cell gets DATA_NEED_ATTENTION.  The
\* counts are ints, so isinstance(count, (int, float)) holds.
apply_quality_gate_styles(col_data) ==
    [i \in 1..Len(col_data) |->
        col_data[i].index = <<"F","a","i","l","e","d">> /\ col_data[i].count > 0]

apply_coverage_styles(col_data) ==
    [i \in 1..Len(col_data) |->
        /\ col_data[i].index # <<">"," ","8","0","%">>
        /\ upper(col_data[i].index) # S_NA
        /\ col_data[i].count > 0]

apply_duplication_styles(col_data) ==
    [i \in 1..Len(col_data) |->
        /\ col_data[i].index # <<"<"," ","3","%">>
        /\ upper(col_data[i].index) # S_NA
        /\ col_data[i].count > 0]

apply_ratings_styles(col_data) ==
    [i \in 1..Len(col_data) |->
        /\ col_data[i].index \in { <<"B">>, <<"C">>, <<"D">>, <<"E">> }
        /\ col_data[i].count > 0]

\* --------------------------------------------------------- Excel workbook

\* str(x) of a cell value used as sort key (names are str or None).
str_of(v) == IF IsNone(v) THEN << "N","o","n","e" >> ELSE v.s

\* a < b for Python str values (lexicographic by code point).
RECURSIVE StrLt(_, _)
StrLt(a, b) ==
    IF b = << >> THEN FALSE
    ELSE IF a = << >> THEN TRUE
    ELSE IF Head(a) # Head(b) THEN Ord(Head(a)) < Ord(Head(b))
    ELSE StrLt(Tail(a), Tail(b))

\* list.sort(key=...): stable, ascending, over <<key, item>> pairs.  Each
\* pair is inserted after the pairs already placed whose key is not greater.
RECURSIVE InsertByKey(_, _)
InsertByKey(sorted, pair) ==
    IF sorted = << >> THEN << pair >>
    ELSE IF StrLt(pair[1], Head(sorted)[1]) THEN << pair >> \o sorted
    ELSE << Head(sorted) >> \o InsertByKey(Tail(sorted), pair)

RECURSIVE StableSort(_, _)
StableSort(done, rest) ==
    IF rest = << >> THEN done
    ELSE StableSort(InsertByKey(done, Head(rest)), Tail(rest))

\* Variant: the names are compared as they are, upper case before lower case.
excel_sort_key_case_sensitive(row) == str_of(row[1])

excel_sort_key(row) == lower(str_of(row[1]))

Items(pairs) == [i \in 1..Len(pairs) |-> pairs[i][2]]

sort_and_clear_sheet(sheet) ==
    [sheet EXCEPT !.rows =
        Items(StableSort(<< >>,
            [i \in 1..Len(sheet.rows) |-> << excel_sort_key(sheet.rows[i]), sheet.rows[i] >>]))]

CellRange(columns, rows) == { << c, r >> : c \in columns, r \in rows }

\* Variant: the coverage range runs to column F.
apply_conditional_formatting_summary_to_F6 ==
    CellRange({"C"}, {4}) \cup CellRange({"B", "C", "D", "E", "F"}, {6})
        \cup CellRange({"C", "D", "E", "F"}, 8..11) \cup CellRange({"C", "D", "E", "F"}, {13})

\* The cells under the rule "greater than 0": C4, B6:E6, C8:F11, C13:F13.
apply_conditional_formatting_summary ==
    CellRange({"C"}, {4}) \cup CellRange({"B", "C", "D", "E"}, {6})
        \cup CellRange({"C", "D", "E", "F"}, 8..11) \cup CellRange({"C", "D", "E", "F"}, {13})

\* The count cells the rule fills when the sheet is shown.
conditional_fill(cells, ranges) ==
    { a \in (DOMAIN cells) \cap ranges : cells[a] > 0 }

\* Variant: the counts of a row are written from right to left.
CountRowReversed(r, counts, labels) ==
    IF counts = Absent THEN << >>
    ELSE [a \in {<< <<"B","C","D","E","F","G">>[i], r >> : i \in 1..Len(labels)} |->
             counts[labels[Len(labels) + 1 - (CHOOSE i \in 1..Len(labels) :
                                                  <<"B","C","D","E","F","G">>[i] = a[1])]]]

\* The count cells of the Summary sheet, by cell address.
CountRow(r, counts, labels) ==
    IF counts = Absent THEN << >>
    ELSE [a \in {<< <<"B","C","D","E","F","G">>[i], r >> : i \in 1..Len(labels)} |->
             counts[labels[CHOOSE i \in 1..Len(labels) :
                              <<"B","C","D","E","F","G">>[i] = a[1]]]]

RatingOrder == << "A", "B", "C", "D", "E", "N/A" >>

add_summary_sheet_to_workbook(metrics_sheet, org_name) ==
    [ B1 |-> org_name,
      B2 |-> max_row(metrics_sheet) - 1,
      conditional_formatting |-> apply_conditional_formatting_summary,
      counts |->
        CountRow(4, quality_gate_dimension(metrics_sheet), << "OK", "ERROR", "N/A" >>)
        @@ CountRow(6, coverage_dimension(metrics_sheet),
                    << "< 10%", "10% - 30%", "30% - 50%", "50% - 80%", "> 80%", "N/A" >>)
        @@ CountRow(8, rating_dimension(metrics_sheet, RatingHeaders[1]), RatingOrder)
        @@ CountRow(9, rating_dimension(metrics_sheet, RatingHeaders[2]), RatingOrder)
        @@ CountRow(10, rating_dimension(metrics_sheet, RatingHeaders[3]), RatingOrder)
        @@ CountRow(11, rating_dimension(metrics_sheet, RatingHeaders[4]), RatingOrder)
        @@ CountRow(13, duplication_dimension(metrics_sheet),
                    << "< 3%", "3% - 5%", "5% - 10%", "10% - 20%", "> 20%", "N/A" >>) ]

WorkbookOf(filled, org_name) ==
    IF filled.exc # "" THEN [exc |-> filled.exc, wb |-> << >>]
    ELSE LET sheet == sort_and_clear_sheet(filled.sheet)
         IN  [exc |-> "",
              wb |-> << [ sheet |-> sheet,
                          flagged |-> highlight_na_rows_excel(sheet),
                          summary |-> add_summary_sheet_to_workbook(sheet, org_name) ] >>]

\* generate_excel_file up to workbook.save: the detail sheet, the filled
\* rows and the Summary sheet, or the exception that escapes.
build_workbook(projects_data, metric_keys, org_name) ==
    WorkbookOf(populate_sheet_with_data(new_sheet(create_headers(metric_keys)),
                                        projects_data, metric_keys),
               org_name)

\* ------------------------------------------------------------- inputs
\* The projects the metrics source lists and the results a project task can
\* produce are drawn from small fixed vocabularies.

MaxProjects == 2

Measure(k, v) == [metric |-> k, has_value |-> TRUE, value |-> PyStr(v)]

MeasureWithoutValue(k) == [metric |-> k, has_value |-> FALSE, value |-> PyNone]

MaxFetches == 1

ProjectPool ==
    << [name |-> PyStr(<<"a","p","p","l","e">>), key |-> PyStr(<<"k","1">>)],
       [name |-> PyStr(<<"A","p","p","l","e">>), key |-> PyStr(<<"k","2">>)],
       [name |-> PyStr(<<"B","a","n","a","n","a">>), key |-> PyStr(<<"k","3">>)],
       [name |-> PyStr(<<"C","h","e","r","r","y">>), key |-> PyStr(<<"k","4">>)] >>

\* The pool projects at the positions of idx, in the order of idx.
RECURSIVE Pick(_, _)
Pick(pool, idx) ==
    IF idx = << >> THEN << >> ELSE << pool[Head(idx)] >> \o Pick(pool, Tail(idx))

\* fetch_projects: no project, or the first pool project followed by other
\* pool projects in pool order.
ProjectListings ==
    { << >> } \cup
    { Pick(ProjectPool, << 1 >> \o idx) :
        idx \in { << >>, << 2 >>, << 3 >>, << 2, 3 >> } }

Listings == {l \in ProjectListings : Len(l) <= MaxProjects}

AnalysisDate == PyStr(<<"2","0","2","4">>)

HealthyMeasures ==
    << Measure("alert_status", <<"O","K">>),
       Measure("ncloc", <<"1","2","0","0">>),
       Measure("bugs", <<"0">>),
       Measure("reliability_rating", <<"1",".","0">>),
       Measure("vulnerabilities", <<"2">>),
       Measure("security_rating", <<"3",".","0">>),
       Measure("security_review_rating", <<"5",".","0">>),
       Measure("code_smells", <<"7">>),
       Measure("sqale_rating", <<"2",".","0">>),
       Measure("duplicated_lines_density", <<"4",".","5">>),
       Measure("coverage", <<"8","5",".","0">>) >>

\* What fetch_project_metrics and fetch_last_analysis_date can return for
\* the task of a project: the healthy measures, and for the first pool
\* project an ncloc of "inf", for the others a failed gate with a coverage
\* of "nan" and no analysis.
TaskResults(project) ==
    { [metrics |-> HealthyMeasures, last_analysis_date |-> AnalysisDate],
      IF project.key = ProjectPool[1].key
      THEN [metrics |-> << Measure("ncloc", <<"i","n","f">>) >>,
            last_analysis_date |-> AnalysisDate]
      ELSE [metrics |-> << Measure("alert_status", <<"E","R","R","O","R">>),
                           Measure("coverage", <<"n","a","n">>) >>,
            last_analysis_date |-> PyNone] }

OrgNameInputs == { << >>, <<"a","c","m","e","/">> }

RECURSIVE rstrip_slash(_)
rstrip_slash(s) ==
    IF s # << >> /\ s[Len(s)] = "/" THEN rstrip_slash(SubSeq(s, 1, Len(s) - 1)) ELSE s

process_project(project, fetched) ==
    [ name |-> project.name, key |-> project.key,
      metrics |-> fetched.metrics,
      last_analysis_date |-> fetched.last_analysis_date ]

\* ---------------------------------------------------------------- state

VARIABLES
    pc,                          \* position of the script run
    ORG_NAME,                    \* module global
    session_state,               \* st.session_state
    projects,                    \* fetch loop: the listed projects
    futures,                     \* fetch loop: one future per project
    yielded,                     \* fetch loop: futures as_completed has yielded
    projects_data_for_ui_raw,    \* fetch loop local
    raw_projects_data_for_excel, \* fetch loop local
    errors,                      \* projects reported by st.error in the loop
    crashed,                     \* exception that ended the script run, or ""
    ui_table,                    \* the detail table shown, with row styles
    excel_file,                  \* the workbook generate_excel_file built
    download_offered,            \* the download button is shown
    fetches,                     \* fetches that found projects, so far
    fn_in,                       \* function under study: arguments
    fn_out                       \* function under study: result

vars == << pc, ORG_NAME, session_state, projects, futures, yielded,
           projects_data_for_ui_raw, raw_projects_data_for_excel, errors,
           crashed, ui_table, excel_file, download_offered, fetches, fn_in, fn_out >>

loop_vars == << projects, futures, yielded, projects_data_for_ui_raw,
                raw_projects_data_for_excel >>

page_vars == << errors, crashed, ui_table, excel_file, download_offered >>

fn_vars == << fetches, fn_in, fn_out >>

pure_vars == << fn_in, fn_out >>

InitialSessionState ==
    [ data_fetched |-> FALSE,
      projects_data_for_ui |-> << >>,
      raw_projects_data_for_excel |-> << >>,
      metric_keys |-> << >>,
      summary_data |-> << >> ]

NoLoop ==
    /\ projects' = << >>
    /\ futures' = << >>
    /\ yielded' = {}
    /\ projects_data_for_ui_raw' = << >>
    /\ raw_projects_data_for_excel' = << >>

BlankPage ==
    /\ errors' = << >>
    /\ crashed' = ""
    /\ ui_table' = << >>
    /\ excel_file' = << >>
    /\ download_offered' = FALSE

\* The state after the first lines of the script: nothing fetched.
MainIdle ==
    /\ pc = "idle"
    /\ ORG_NAME = << >>
    /\ session_state = InitialSessionState
    /\ projects = << >>
    /\ futures = << >>
    /\ yielded = {}
    /\ projects_data_for_ui_raw = << >>
    /\ raw_projects_data_for_excel = << >>
    /\ errors = << >>
    /\ crashed = ""
    /\ ui_table = << >>
    /\ excel_file = << >>
    /\ download_offered = FALSE
    /\ fetches = 0

Init ==
    /\ MainIdle
    /\ fn_in = << >>
    /\ fn_out = << >>

\* ------------------------------------------------- main_streamlit: a run
\* Streamlit runs the script once per interaction; the module globals are
\* re-initialised by every run, st.session_state survives.

\* The validation of the four sidebar inputs.
InputsValid(url, token, org_name, org_key) ==
    url # << >> /\ token # << >> /\ org_name # << >> /\ org_key # << >>

FlagInputs == { << >>, <<"x">> }

\* A run without the fetch button: straight to the display section.
Rerun ==
    /\ pc = "idle"
    /\ pc' = "display"
    /\ ORG_NAME' = << >>
    /\ BlankPage
    /\ UNCHANGED << session_state, loop_vars, fn_vars >>

\* Fetch pressed with a missing input: st.error and return.
FetchInvalid ==
    /\ pc = "idle"
    /\ \E url \in FlagInputs, token \in FlagInputs,
          org_name \in OrgNameInputs, org_key \in FlagInputs :
          ~InputsValid(url, token, org_name, org_key)
    /\ ORG_NAME' = << >>
    /\ BlankPage
    /\ UNCHANGED << pc, session_state, loop_vars, fn_vars >>

\* Variant: the warning and the return, data_fetched left as it is.
FetchNoProjectsKeepsFlag ==
    /\ pc = "idle"
    /\ \E org_name \in OrgNameInputs :
          /\ InputsValid(<<"x">>, <<"x">>, org_name, <<"x">>)
          /\ ORG_NAME' = rstrip_slash(org_name)
    /\ BlankPage
    /\ UNCHANGED << pc, session_state, loop_vars, fn_vars >>

\* Fetch pressed, fetch_projects returns no project: warning and return.
FetchNoProjects ==
    /\ pc = "idle"
    /\ \E org_name \in OrgNameInputs :
          /\ InputsValid(<<"x">>, <<"x">>, org_name, <<"x">>)
          /\ ORG_NAME' = rstrip_slash(org_name)
    /\ session_state' = [session_state EXCEPT !.data_fetched = FALSE]
    /\ BlankPage
    /\ UNCHANGED << pc, loop_vars, fn_vars >>

\* Fetch pressed, projects found: one task per project is submitted.
FetchStart ==
    /\ pc = "idle"
    /\ fetches < MaxFetches
    /\ fetches' = fetches + 1
    /\ \E org_name \in OrgNameInputs :
          /\ InputsValid(<<"x">>, <<"x">>, org_name, <<"x">>)
          /\ ORG_NAME' = rstrip_slash(org_name)
    /\ \E listing \in Listings :
          /\ listing # << >>
          /\ projects' = listing
          /\ futures' = [i \in 1..Len(listing) |-> [state |-> "pending", result |-> << >>]]
    /\ yielded' = {}
    /\ projects_data_for_ui_raw' = << >>
    /\ raw_projects_data_for_excel' = << >>
    /\ pc' = "loop"
    /\ BlankPage
    /\ UNCHANGED << session_state, pure_vars >>

\* A worker finishes process_project for one project: a result, or an
\* exception stored in the future.
TaskFinish(i) ==
    /\ pc = "loop"
    /\ futures[i].state = "pending"
    /\ \/ \E fetched \in TaskResults(projects[i]) :
             futures' = [futures EXCEPT ![i] =
                 [state |-> "done", result |-> << process_project(projects[i], fetched) >>]]
       \/ futures' = [futures EXCEPT ![i] = [state |-> "raised", result |-> << >>]]
    /\ UNCHANGED << pc, ORG_NAME, session_state, projects, yielded,
                    projects_data_for_ui_raw, raw_projects_data_for_excel,
                    page_vars, fn_vars >>

\* Variant: the loop body without its try statement; an exception of a
\* future ends the script run.
CollectWithoutTry(i) ==
    /\ pc = "loop"
    /\ i \notin yielded
    /\ futures[i].state # "pending"
    /\ IF futures[i].state = "raised" \/ build_ui_row(futures[i].result[1], metric_keys_str).exc # ""
       THEN /\ crashed' = "Exception"
            /\ pc' = "idle"
            /\ NoLoop
            /\ UNCHANGED errors
       ELSE /\ yielded' = yielded \cup {i}
            /\ raw_projects_data_for_excel' =
                   Append(raw_projects_data_for_excel, futures[i].result[1])
            /\ projects_data_for_ui_raw' =
                   Append(projects_data_for_ui_raw,
                          build_ui_row(futures[i].result[1], metric_keys_str).row)
            /\ UNCHANGED << pc, projects, futures, errors, crashed >>
    /\ UNCHANGED << ORG_NAME, session_state, ui_table, excel_file, download_offered, fn_vars >>

\* One iteration of `for future in as_completed(...)`: the try body and its
\* except clause.
Collect(i) ==
    /\ pc = "loop"
    /\ i \notin yielded
    /\ futures[i].state # "pending"
    /\ yielded' = yielded \cup {i}
    /\ IF futures[i].state = "raised"
       THEN /\ errors' = Append(errors, i)
            /\ UNCHANGED << projects_data_for_ui_raw, raw_projects_data_for_excel >>
       ELSE LET project_data == futures[i].result[1]
                ui == build_ui_row(project_data, metric_keys_str)
            IN  /\ raw_projects_data_for_excel' =
                       Append(raw_projects_data_for_excel, project_data)
                /\ IF ui.exc # ""
                   THEN /\ errors' = Append(errors, i)
                        /\ UNCHANGED projects_data_for_ui_raw
                   ELSE /\ projects_data_for_ui_raw' =
                               Append(projects_data_for_ui_raw, ui.row)
                        /\ UNCHANGED errors
    /\ UNCHANGED << pc, ORG_NAME, session_state, projects, futures,
                    crashed, ui_table, excel_file, download_offered, fn_vars >>

\* Variant: the results are published as soon as one future has been
\* consumed, without waiting for the others.
PublishEarly ==
    /\ pc = "loop"
    /\ yielded # {}
    /\ session_state' =
          [session_state EXCEPT
              !.projects_data_for_ui = projects_data_for_ui_raw,
              !.raw_projects_data_for_excel = raw_projects_data_for_excel,
              !.metric_keys = metric_keys_str,
              !.data_fetched = TRUE]
    /\ pc' = "display"
    /\ UNCHANGED << ORG_NAME, loop_vars, page_vars, fn_vars >>

\* The loop has consumed every future: the results are published.
Publish ==
    /\ pc = "loop"
    /\ yielded = 1..Len(futures)
    /\ session_state' =
          [session_state EXCEPT
              !.projects_data_for_ui = projects_data_for_ui_raw,
              !.raw_projects_data_for_excel = raw_projects_data_for_excel,
              !.metric_keys = metric_keys_str,
              !.data_fetched = TRUE]
    /\ pc' = "display"
    /\ UNCHANGED << ORG_NAME, loop_vars, page_vars, fn_vars >>

ui_sort_key(row) == lower(strip(str_of(row["Project Name"])))

\* The styled detail table: formatted, sorted by name, row styles applied.
styled_table(rows) ==
    LET shown == [i \in 1..Len(rows) |-> display_row(rows[i])]
        data == [i \in 1..Len(shown) |-> << ui_sort_key(shown[i]), shown[i] >>]
        sorted == StableSort(<< >>, data)
    IN  [i \in 1..Len(sorted) |->
            [row |-> sorted[i][2], highlighted |-> highlight_na_rows_dataframe(sorted[i][2])]]

\* The display section: detail table, temporary sheet, summary.
DisplaySection ==
    /\ pc = "display"
    /\ IF ~session_state.data_fetched
       THEN /\ pc' = "idle"
            /\ UNCHANGED << session_state, page_vars >>
       ELSE LET keys == session_state.metric_keys
                filled == populate_sheet_with_data(
                              new_sheet(create_headers(keys)),
                              session_state.raw_projects_data_for_excel, keys)
            IN  /\ ui_table' = styled_table(session_state.projects_data_for_ui)
                /\ IF filled.exc # ""
                   THEN /\ crashed' = filled.exc
                        /\ pc' = "idle"
                        /\ UNCHANGED session_state
                   ELSE /\ session_state' =
                               [session_state EXCEPT !.summary_data =
                                   << generate_summary_data(filled.sheet, ORG_NAME) >>]
                        /\ pc' = "download"
                        /\ UNCHANGED crashed
                /\ UNCHANGED << errors, excel_file, download_offered >>
    /\ IF pc' = "idle" THEN NoLoop ELSE UNCHANGED loop_vars
    /\ UNCHANGED << ORG_NAME, fn_vars >>

\* Variant: generate_excel_file without the try around workbook.save; an
\* exception of save ends the script run.
DownloadSectionSaveRaises ==
    /\ pc = "download"
    /\ pc' = "idle"
    /\ IF session_state.raw_projects_data_for_excel = << >>
       THEN UNCHANGED page_vars
       ELSE LET built == build_workbook(session_state.raw_projects_data_for_excel,
                                        session_state.metric_keys, ORG_NAME)
            IN  IF built.exc # ""
                THEN /\ crashed' = built.exc
                     /\ UNCHANGED << errors, ui_table, excel_file, download_offered >>
                ELSE \E saved \in BOOLEAN :
                     /\ excel_file' = IF saved THEN built.wb ELSE << >>
                     /\ download_offered' = saved
                     /\ crashed' = IF saved THEN crashed ELSE "Exception"
                     /\ UNCHANGED << errors, ui_table >>
    /\ NoLoop
    /\ UNCHANGED << ORG_NAME, session_state, fn_vars >>

\* The download section: generate_excel_file and the download button.
\* workbook.save either succeeds or raises inside the try of the function:
\* then st.error reports it (entry 0 of errors) and the function returns None.
DownloadSection ==
    /\ pc = "download"
    /\ pc' = "idle"
    /\ IF session_state.raw_projects_data_for_excel = << >>
       THEN UNCHANGED page_vars
       ELSE LET built == build_workbook(session_state.raw_projects_data_for_excel,
                                        session_state.metric_keys, ORG_NAME)
            IN  IF built.exc # ""
                THEN /\ crashed' = built.exc
                     /\ UNCHANGED << errors, ui_table, excel_file, download_offered >>
                ELSE \E saved \in BOOLEAN :
                     /\ excel_file' = IF saved THEN built.wb ELSE << >>
                     /\ download_offered' = saved
                     /\ errors' = IF saved THEN errors ELSE Append(errors, 0)
                     /\ UNCHANGED << crashed, ui_table >>
    /\ NoLoop
    /\ UNCHANGED << ORG_NAME, session_state, fn_vars >>

Next ==
    \/ Rerun
    \/ FetchInvalid
    \/ FetchNoProjects
    \/ FetchStart
    \/ \E i \in 1..MaxProjects : i <= Len(futures) /\ TaskFinish(i)
    \/ \E i \in 1..MaxProjects : i <= Len(futures) /\ Collect(i)
    \/ Publish
    \/ DisplaySection
    \/ DownloadSection

Spec == Init /\ [][Next]_vars

main_vars == << pc, ORG_NAME, session_state, loop_vars, page_vars, fetches >>

\* The loop can take a future: one has finished that as_completed has not
\* yielded yet.  This is ENABLED <<Collect(i)>>_vars for some i.
CollectEnabled ==
    /\ pc = "loop"
    /\ \E i \in 1..Len(futures) : i \notin yielded /\ futures[i].state # "pending"

\* Every submitted task ends with a result or an exception, and the main
\* thread goes on through the loop and the statements after it.  The last
\* conjunct is the weak fairness of the loop body, with CollectEnabled for
\* its ENABLED predicate.
FairSpec ==
    /\ Spec
    /\ WF_vars(\E i \in 1..MaxProjects : i <= Len(futures) /\ TaskFinish(i))
    /\ WF_vars(Publish)
    /\ \/ []<>(~CollectEnabled)
       \/ []<><<\E i \in 1..MaxProjects : i <= Len(futures) /\ Collect(i)>>_vars

\* ------------------------------------------- convert_to_numeric_or_na alone
\* The function applied to one raw value and one kind.

RawStrings ==
    { << >>,
      <<"N","/","A">>,
      <<" ","n","/","a"," ">>,
      <<"N","/","A","\r">>,
      <<"O","K">>,
      <<"a","b","c">>,
      <<"i","n","f">>,
      <<"-","I","n","f","i","n","i","t","y">>,
      <<"1","e","9","9","9">>,
      <<"n","a","n">>,
      <<"-","0",".","0">>,
      <<"3">>,
      <<"3",".","0">>,
      <<"3",".","7">>,
      <<"-","3",".","7">>,
      <<"6",".","0">>,
      <<"1","2",".","3","4","5">>,
      <<"0",".","2","5">>,
      <<"9",".","9","6">>,
      <<"8","0">>,
      <<"8","5",".","0">>,
      <<".","5">>,
      <<"+","7">>,
      <<"1","e","2">>,
      <<"1","_","0">>,
      <<" ","4","2"," ">>,
      <<"9",".","9","5">>,
      <<"0",".","1","5">>,
      <<"0",".","4","5">>,
      <<"2",".","8","5","0","1">>,
      <<"0",".","0","0","0","4">>,
      <<"-","0",".","0","4">>,
      <<"4","2","\r">>,
      <<"\f","4","2">>,
      <<Latin1[160],"7">> }

RawValues == { PyNone } \cup { PyStr(s) : s \in RawStrings }

Kinds == { << "int", NoPlaces >>, << "float", 1 >>, << "float", NoPlaces >>,
           << "none", NoPlaces >> }

InitNormalize ==
    /\ MainIdle
    /\ fn_in \in { [value |-> v, as_type |-> k[1], decimal_places |-> k[2]] :
                      v \in RawValues, k \in Kinds }
    /\ fn_out = << >>

ApplyConvert ==
    /\ fn_out = << >>
    /\ fn_out' = << convert_to_numeric_or_na(fn_in.value, fn_in.as_type,
                                               fn_in.decimal_places) >>
    /\ UNCHANGED << main_vars, fn_in >>

SpecNormalize == InitNormalize /\ [][ApplyConvert]_vars

\* ------------------------------------------------- one record, both paths
\* One project record taken through the Excel path (workbook of that record)
\* and through the UI path (ui_row, styled table).

MaxMeasures == 2

MeasureVocabulary ==
    { Measure("alert_status", <<"O","K">>),
      Measure("alert_status", <<"N","/","A">>),
      Measure("alert_status", <<" ","n","/","a"," ">>),
      Measure("alert_status", <<"N","/","A","\r">>),
      Measure("ncloc", <<"1","0","0">>),
      Measure("ncloc", <<"N","/","A">>),
      Measure("ncloc", <<"i","n","f">>),
      MeasureWithoutValue("ncloc"),
      Measure("reliability_rating", <<"3",".","0">>),
      Measure("reliability_rating", <<"3">>),
      Measure("reliability_rating", <<"6",".","0">>),
      Measure("reliability_rating", << >>),
      Measure("security_rating", <<"1",".","0">>),
      Measure("sqale_rating", <<"5",".","0">>),
      Measure("security_review_rating", <<"2",".","0">>),
      Measure("security_review_rating", <<"4",".","0">>),
      Measure("coverage", <<"8","5",".","0">>),
      Measure("coverage", <<"9",".","9","5">>),
      Measure("coverage", <<"n","a","n">>),
      Measure("coverage", <<"a","b","c">>),
      [metric |-> "coverage", has_value |-> TRUE, value |-> PyNone],
      Measure("duplicated_lines_density", <<"2",".","9","6">>),
      Measure("new_coverage", <<"1">>) }

MeasureLists == UNION { [1..n -> MeasureVocabulary] : n \in 0..MaxMeasures }

InitRecord ==
    /\ MainIdle
    /\ fn_in \in { process_project(ProjectPool[1], [metrics |-> ms, last_analysis_date |-> d]) :
                      ms \in MeasureLists, d \in { PyNone, AnalysisDate } }
    /\ fn_out = [excel |-> << >>, ui |-> << >>]

ExcelPath ==
    /\ fn_out.excel = << >>
    /\ fn_out' = [fn_out EXCEPT !.excel =
                      << build_workbook(<< fn_in >>, metric_keys_str, << >>) >>]
    /\ UNCHANGED << main_vars, fn_in >>

UiPath ==
    /\ fn_out.ui = << >>
    /\ LET r == build_ui_row(fn_in, metric_keys_str)
       IN  fn_out' = [fn_out EXCEPT !.ui =
               << [exc |-> r.exc,
                   row |-> IF r.exc = "" THEN << r.row >> ELSE << >>,
                   table |-> IF r.exc = "" THEN styled_table(<< r.row >>) ELSE << >>] >>]
    /\ UNCHANGED << main_vars, fn_in >>

SpecRecord == InitRecord /\ [][ExcelPath \/ UiPath]_vars

\* --------------------------------------------------- the count functions
\* One column of a detail sheet and one calculate_*_counts function.  The
\* quality gate, coverage and duplication cells are the cells the row builder
\* makes of raw measure values; rating cells are arbitrary cell values.

MaxGateRows == 5

MaxRows == 2

GateRaw ==
    { PyNone, PyStr(<<"O","K">>), PyStr(<<"E","R","R","O","R">>),
      PyStr(<<"g","a","r","b","a","g","e">>), PyStr(<<"o","k">>) }

CoverageRaw ==
    { PyNone, NA, PyStr(<<"a","b","c">>), PyStr(<<"n","a","n">>), PyStr(<<"i","n","f">>),
      PyStr(<<"-","i","n","f">>), PyStr(<<"-","1">>), PyStr(<<"-","0",".","0","4">>), PyStr(<<"9",".","9","4">>),
      PyStr(<<"9",".","9","5">>),
      PyStr(<<"9",".","9","6">>), PyStr(<<"1","0">>), PyStr(<<"2","9",".","9">>),
      PyStr(<<"3","0">>), PyStr(<<"4","9",".","9">>), PyStr(<<"5","0">>),
      PyStr(<<"7","9",".","9">>), PyStr(<<"8","0">>), PyStr(<<"1","0","0">>) }

DuplicationRaw ==
    { PyNone, NA, PyStr(<<"n","a","n">>), PyStr(<<"0">>), PyStr(<<"2",".","9">>),
      PyStr(<<"2",".","9","6">>), PyStr(<<"3">>), PyStr(<<"4",".","9">>), PyStr(<<"5">>),
      PyStr(<<"9",".","9">>), PyStr(<<"1","0">>), PyStr(<<"1","9",".","9">>),
      PyStr(<<"2","0">>), PyStr(<<"i","n","f">>) }

RatingCells ==
    { PyNone, NA, PyStr(<<"A">>), PyStr(<<"B">>), PyStr(<<"C">>), PyStr(<<"D">>),
      PyStr(<<"E">>), PyStr(<<"F">>), PyStr(<<"a">>) }

Columns(cells, n) == UNION { [1..k -> cells] : k \in 0..n }

InitCounts ==
    /\ MainIdle
    /\ fn_in \in
          { [dim |-> "quality_gate", raw |-> col] : col \in Columns(GateRaw, MaxGateRows) }
          \cup { [dim |-> "coverage", raw |-> col] : col \in Columns(CoverageRaw, MaxRows) }
          \cup { [dim |-> "duplication", raw |-> col] : col \in Columns(DuplicationRaw, MaxRows) }
          \cup { [dim |-> "rating", raw |-> col] : col \in Columns(RatingCells, MaxRows) }
    /\ fn_out = << >>

\* A sheet of one column: the cells the row builder makes of the raw values
\* of metric key k.
ColumnSheet(k, raw) ==
    [ headers |-> << k >>,
      rows |-> [i \in 1..Len(raw) |->
                   << excel_metric_cell([x \in {k} |-> raw[i]], k).v >>] ]

CellSheet(k, cells) ==
    [ headers |-> << k >>, rows |-> [i \in 1..Len(cells) |-> << cells[i] >>] ]

ApplyCounts(dim, sheet, counts) ==
    /\ fn_in.dim = dim
    /\ fn_out = << >>
    /\ fn_out' = << [sheet |-> sheet, counts |-> counts] >>
    /\ UNCHANGED << main_vars, fn_in >>

ApplyQualityGateCounts ==
    LET sheet == ColumnSheet("alert_status", fn_in.raw)
    IN  ApplyCounts("quality_gate", sheet, calculate_quality_gate_counts(sheet, 1))

ApplyCoverageCounts ==
    LET sheet == ColumnSheet("coverage", fn_in.raw)
    IN  ApplyCounts("coverage", sheet, calculate_coverage_counts(sheet, 1))

ApplyDuplicationCounts ==
    LET sheet == ColumnSheet("duplicated_lines_density", fn_in.raw)
    IN  ApplyCounts("duplication", sheet, calculate_duplication_counts(sheet, 1))

ApplyRatingCounts ==
    LET sheet == CellSheet(RatingHeaders[1], fn_in.raw)
    IN  ApplyCounts("rating", sheet, calculate_rating_counts(sheet, 1))

NextCounts ==
    \/ ApplyQualityGateCounts
    \/ ApplyCoverageCounts
    \/ ApplyDuplicationCounts
    \/ ApplyRatingCounts

SpecCounts == InitCounts /\ [][NextCounts]_vars

\* ----------------------------------------------------- sort_and_clear_sheet
\* A detail sheet of up to MaxSortRows rows, each a project name and a key
\* that numbers the row, sorted by sort_and_clear_sheet.

MaxSortRows == 3

SortNames ==
    { ProjectPool[i].name : i \in 1..Len(ProjectPool) }
    \cup { PyStr(<<"a",":","b">>), PyStr(<<"a"," ","b">>), PyStr(<<"z","e","t","a">>),
           PyStr(<<"É","c","l","a","i","r">>) }

InitSort ==
    /\ MainIdle
    /\ fn_in \in { [ headers |-> << "Project Name", "Project Key" >>,
                      rows |-> [i \in 1..Len(names) |->
                                   << names[i], PyStr(<< "k" >> \o NatToDigits(i)) >>] ] :
                      names \in UNION { [1..n -> SortNames] : n \in 0..MaxSortRows } }
    /\ fn_out = << >>

ApplySort ==
    /\ fn_out = << >>
    /\ fn_out' = << sort_and_clear_sheet(fn_in) >>
    /\ UNCHANGED << main_vars, fn_in >>

SpecSort == InitSort /\ [][ApplySort]_vars

\* ------------------------------------------- flagged rows and the summary
\* A list of project records taken through generate_excel_file (detail
\* sheet, flagged rows, Summary sheet) and through the summary of the
\* display section.

MaxAttentionRows == 3

\* Measures of a record: none, an explicit "N/A", a status that is "N/A" up
\* to case and blanks, a failed gate with a coverage of "nan", all healthy.
AttentionMeasures ==
    { << >>,
      << Measure("coverage", <<"N","/","A">>) >>,
      << Measure("alert_status", <<" ","n","/","a"," ">>) >>,
      << Measure("alert_status", <<"E","R","R","O","R">>), Measure("coverage", <<"n","a","n">>) >>,
      HealthyMeasures }

AttentionRecords(ms) ==
    [i \in 1..Len(ms) |->
        process_project(ProjectPool[((i - 1) % Len(ProjectPool)) + 1],
                        [metrics |-> ms[i], last_analysis_date |-> PyNone])]

InitAttention ==
    /\ MainIdle
    /\ fn_in \in { AttentionRecords(ms) :
                      ms \in UNION { [1..n -> AttentionMeasures] : n \in 0..MaxAttentionRows } }
    /\ fn_out = << >>

ApplyAttention ==
    /\ fn_out = << >>
    /\ LET temp == populate_sheet_with_data(new_sheet(create_headers(metric_keys_str)),
                                            fn_in, metric_keys_str)
       IN  fn_out' = << [ excel |-> build_workbook(fn_in, metric_keys_str, << >>),
                          summary_data |-> IF temp.exc = ""
                                           THEN << generate_summary_data(temp.sheet, << >>) >>
                                           ELSE << >> ] >>
    /\ UNCHANGED << main_vars, fn_in >>

SpecAttention == InitAttention /\ [][ApplyAttention]_vars

\* ------------------------------------------------- the summary highlighting
\* The counts of one dimension, shown in its table of the aggregated summary
\* and written to its row of the Summary sheet.

MaxCount == 1

\* Row of the Summary sheet and bucket order of each dimension.
SummaryLayout ==
    [ quality_gate |-> [row |-> 4, labels |-> << "OK", "ERROR", "N/A" >>],
      coverage |-> [row |-> 6,
                    labels |-> << "< 10%", "10% - 30%", "30% - 50%", "50% - 80%", "> 80%", "N/A" >>],
      reliability |-> [row |-> 8, labels |-> RatingOrder],
      security |-> [row |-> 9, labels |-> RatingOrder],
      maintainability |-> [row |-> 10, labels |-> RatingOrder],
      hotspot |-> [row |-> 11, labels |-> RatingOrder],
      duplication |-> [row |-> 13,
                       labels |-> << "< 3%", "3% - 5%", "5% - 10%", "10% - 20%", "> 20%", "N/A" >>] ]

LabelsOf(dim) == { SummaryLayout[dim].labels[i] : i \in 1..Len(SummaryLayout[dim].labels) }

InitStyles ==
    /\ MainIdle
    /\ fn_in \in UNION { { [dim |-> d, counts |-> c] : c \in [LabelsOf(d) -> 0..MaxCount] } :
                            d \in DimensionNames }
    /\ fn_out = << >>

summary_table(dim, counts) ==
    CASE dim = "quality_gate" -> quality_gate_df(counts)
      [] dim = "coverage" -> coverage_df(counts)
      [] dim = "duplication" -> duplication_df(counts)
      [] OTHER -> ratings_df(counts)

summary_styles(dim, col_data) ==
    CASE dim = "quality_gate" -> apply_quality_gate_styles(col_data)
      [] dim = "coverage" -> apply_coverage_styles(col_data)
      [] dim = "duplication" -> apply_duplication_styles(col_data)
      [] OTHER -> apply_ratings_styles(col_data)

ApplyStyles ==
    /\ fn_out = << >>
    /\ fn_out' =
          << [ table |-> summary_table(fn_in.dim, fn_in.counts),
               ui |-> summary_styles(fn_in.dim, summary_table(fn_in.dim, fn_in.counts)),
               excel |-> conditional_fill(
                             CountRow(SummaryLayout[fn_in.dim].row, fn_in.counts,
                                      SummaryLayout[fn_in.dim].labels),
                             apply_conditional_formatting_summary) ] >>
    /\ UNCHANGED << main_vars, fn_in >>

SpecStyles == InitStyles /\ [][ApplyStyles]_vars

\* ================================================================ claims

Letters == { PyStr(<<"A">>), PyStr(<<"B">>), PyStr(<<"C">>), PyStr(<<"D">>), PyStr(<<"E">>) }

Summary == session_state.summary_data[1]

\* C1: in the summary, for each of the 7 distribution dimensions the bucket
\* counts add up to the number of records (Total Repos).
C1_BucketSumsEqualTotal ==
    session_state.summary_data # << >> =>
        \A d \in DimensionNames : SumCounts(Summary[d]) = Summary.total_repos

\* C2: convert_to_numeric_or_na never raises, and for kind int or float the
\* result is an int, a float or "N/A".
C2_ConvertNeverRaises ==
    fn_out # << >> =>
        /\ fn_out[1].exc = ""
        /\ fn_in.as_type \in {"int", "float"} =>
              IsInt(fn_out[1].v) \/ IsFloat(fn_out[1].v) \/ fn_out[1].v = NA

\* C3: after the fetch loop every listed project has exactly one collected
\* record, also when its task or its row construction raised.
C3_OneRecordPerProject ==
    (pc = "display" /\ projects # << >>) =>
        /\ Len(session_state.raw_projects_data_for_excel) = Len(projects)
        /\ Len(session_state.projects_data_for_ui) = Len(projects)

\* C4: populate_sheet_with_data completes without raising for every record
\* the fetch loop stored, so no script run ends in an exception.
C4_PopulateNeverRaises ==
    /\ \A i \in 1..Len(session_state.raw_projects_data_for_excel) :
          populate_row(session_state.raw_projects_data_for_excel[i], metric_keys_str).exc = ""
    /\ crashed = ""

ExcelDone == fn_out.excel # << >> /\ fn_out.excel[1].exc = ""

ExcelRow == fn_out.excel[1].wb[1].sheet.rows[1]

ExcelFlagged == 1 \in fn_out.excel[1].wb[1].flagged

UiDone == fn_out.ui # << >> /\ fn_out.ui[1].exc = ""

UiFlagged == fn_out.ui[1].table[1].highlighted

LastChecked == Len(create_headers(metric_keys_str)) - 1

\* C5: a detail row is flagged needs-attention iff every cell from the third
\* column through the second-to-last column is exactly "N/A"; a project
\* without measures is flagged, a project with an available metric is not.
C5_FlaggedIffAllNA ==
    ExcelDone =>
        /\ ExcelFlagged <=> \A c \in 3..LastChecked : ExcelRow[c] = NA
        /\ fn_in.metrics = << >> => ExcelFlagged
        /\ (\E c \in 3..(2 + Len(metric_keys_str)) : ExcelRow[c] # NA) => ~ExcelFlagged

C5_Witness ==
    /\ ExcelDone
    /\ fn_in.metrics = << >>
    /\ fn_in.last_analysis_date = AnalysisDate
    /\ ExcelFlagged

\* C6: the UI row styler flags a project's row iff the Excel highlighter
\* flags the same project's row.
C6_SameFlagInBothPaths ==
    (ExcelDone /\ UiDone) => (UiFlagged <=> ExcelFlagged)

GateExample ==
    << PyStr(<<"O","K">>), PyStr(<<"O","K">>), PyStr(<<"E","R","R","O","R">>),
       PyStr(<<"g","a","r","b","a","g","e">>), PyNone >>

HowMany(col, S) == Cardinality({i \in 1..Len(col) : col[i] \in S})

\* C7: a record is counted under OK iff its alert_status is exactly "OK",
\* under ERROR iff exactly "ERROR", and under N/A for every other value;
\* ["OK","OK","ERROR","garbage",null] gives {OK:2, ERROR:1, N/A:2}.
C7_QualityGateClassification ==
    (fn_out # << >> /\ fn_in.dim = "quality_gate") =>
        LET counts == fn_out[1].counts
            ok == { PyStr(<<"O","K">>) }
            error == { PyStr(<<"E","R","R","O","R">>) }
        IN  /\ counts["OK"] = HowMany(fn_in.raw, ok)
            /\ counts["ERROR"] = HowMany(fn_in.raw, error)
            /\ counts["N/A"] = HowMany(fn_in.raw, GateRaw \ (ok \cup error))
            /\ counts["OK"] + counts["ERROR"] + counts["N/A"] = Len(fn_in.raw)
            /\ fn_in.raw = GateExample =>
                  counts["OK"] = 2 /\ counts["ERROR"] = 1 /\ counts["N/A"] = 2

C7_Witness ==
    /\ fn_out # << >>
    /\ fn_in.dim = "quality_gate"
    /\ fn_in.raw = GateExample
    /\ fn_out[1].counts["N/A"] = 2

IsNumber(v) == IsInt(v) \/ IsFloat(v)

\* lo <= v < hi for integers lo and hi; NoBound stands for no bound.
NoBound == 0 - 1

InRange(v, lo, hi) ==
    /\ IsNumber(v)
    /\ v.c # "nan"
    /\ lo # NoBound => (v.c = "inf" \/ (v.c \in {"fin", "nzero"} /\ v.n >= lo * Pow10(v.k)))
    /\ hi # NoBound => (v.c = "ninf" \/ (v.c \in {"fin", "nzero"} /\ v.n < hi * Pow10(v.k)))

CellsIn(sheet, lo, hi) ==
    Cardinality({i \in 1..Len(sheet.rows) : InRange(sheet.rows[i][1], lo, hi)})

RangeCounts(sheet, counts, labels, bounds) ==
    /\ \A j \in 1..5 : counts[labels[j]] = CellsIn(sheet, bounds[j], bounds[j + 1])
    /\ counts[labels[1]] + counts[labels[2]] + counts[labels[3]] + counts[labels[4]]
         + counts[labels[5]]
         = Cardinality({i \in 1..Len(sheet.rows) : IsNumber(sheet.rows[i][1])})
    /\ counts["N/A"] = Cardinality({i \in 1..Len(sheet.rows) : ~IsNumber(sheet.rows[i][1])})

\* C8: a numeric coverage or duplication cell is counted in exactly one of
\* the half-open ranges (top range unbounded), a non-numeric cell in N/A only.
C8_HalfOpenRanges ==
    /\ (fn_out # << >> /\ fn_in.dim = "coverage") =>
          RangeCounts(fn_out[1].sheet, fn_out[1].counts,
                      << "< 10%", "10% - 30%", "30% - 50%", "50% - 80%", "> 80%" >>,
                      << NoBound, 10, 30, 50, 80, NoBound >>)
    /\ (fn_out # << >> /\ fn_in.dim = "duplication") =>
          RangeCounts(fn_out[1].sheet, fn_out[1].counts,
                      << "< 3%", "3% - 5%", "5% - 10%", "10% - 20%", "> 20%" >>,
                      << NoBound, 3, 5, 10, 20, NoBound >>)

\* C9: a rating cell in {A,B,C,D,E,N/A} increments its own bucket, any other
\* cell value increments N/A, so every row increments exactly one bucket.
C9_RatingClassification ==
    (fn_out # << >> /\ fn_in.dim = "rating") =>
        LET counts == fn_out[1].counts
        IN  /\ \A l \in Letters : counts[l.s[1]] = HowMany(fn_in.raw, {l})
            /\ counts["N/A"] = HowMany(fn_in.raw, RatingCells \ Letters)
            /\ SumCounts(counts) = Len(fn_in.raw)

\* The raw value of a rating code in the record: the value of the last
\* measure of that key, None when there is none.
RawCode(i) ==
    LET at == {j \in 1..Len(fn_in.metrics) : fn_in.metrics[j].metric = RatingSources[i]}
    IN  IF at = {} THEN PyNone
        ELSE fn_in.metrics[CHOOSE j \in at : \A k \in at : k <= j].value

TableLetter(raw) ==
    CASE raw = PyStr(<<"1",".","0">>) -> PyStr(<<"A">>)
      [] raw = PyStr(<<"2",".","0">>) -> PyStr(<<"B">>)
      [] raw = PyStr(<<"3",".","0">>) -> PyStr(<<"C">>)
      [] raw = PyStr(<<"4",".","0">>) -> PyStr(<<"D">>)
      [] raw = PyStr(<<"5",".","0">>) -> PyStr(<<"E">>)
      [] OTHER -> NA

LetterCell(i) == ExcelRow[2 + Len(metric_keys_str) + i]

NumericRatingCell(i) == ExcelRow[2 + IndexOf(RatingSources[i], metric_keys_str)]

\* C10: each letter rating is the table lookup of the raw rating code, is in
\* {A,B,C,D,E,N/A}, agrees with the normalised numeric rating when it is a
\* letter A..E, is "N/A" for the raw code "3" (numeric field 3), and is the
\* same in the Excel row and the UI row.
C10_RatingLetters ==
    ExcelDone =>
        \A i \in 1..4 :
            /\ LetterCell(i) = TableLetter(RawCode(i))
            /\ LetterCell(i) \in Letters \cup { NA }
            /\ \A n \in 1..5 :
                  LetterCell(i) = PyStr(<< <<"A","B","C","D","E">>[n] >>)
                      => NumericRatingCell(i) = PyInt(n)
            /\ RawCode(i) = PyStr(<<"3">>) =>
                  NumericRatingCell(i) = PyInt(3) /\ LetterCell(i) = NA
            /\ UiDone => fn_out.ui[1].row[1][RatingHeaders[i]] = LetterCell(i)

C10_Witness ==
    /\ ExcelDone
    /\ UiDone
    /\ RawCode(1) = PyStr(<<"3">>)
    /\ RawCode(4) = PyStr(<<"4",".","0">>)
    /\ LetterCell(1) = NA
    /\ LetterCell(4) = PyStr(<<"D">>)
    /\ fn_out.ui[1].row[1][RatingHeaders[4]] = PyStr(<<"D">>)

Returned(key) == \E j \in 1..Len(fn_in.metrics) : fn_in.metrics[j].metric = key

RequestedOnly ==
    [fn_in EXCEPT !.metrics =
        SelectSeq(fn_in.metrics, LAMBDA m : IndexOf(m.metric, metric_keys_str) # 0)]

\* C11: the built detail row has exactly len(headers) = 2 + n + 5 cells: name,
\* key, one cell per requested metric key in request order ("N/A" when the
\* source returned none), the 4 letter ratings, the last-analysis date; a
\* measure of a key that was not requested changes nothing.
C11_RowMatchesHeaders ==
    ExcelDone =>
        /\ Len(ExcelRow) = Len(fn_out.excel[1].wb[1].sheet.headers)
        /\ Len(ExcelRow) = 2 + Len(metric_keys_str) + 5
        /\ ExcelRow[1] = fn_in.name
        /\ ExcelRow[2] = fn_in.key
        /\ \A i \in 1..Len(metric_keys_str) :
              /\ fn_out.excel[1].wb[1].sheet.headers[2 + i] = metric_keys_str[i]
              /\ ~Returned(metric_keys_str[i]) => ExcelRow[2 + i] = NA
        /\ \A i \in 1..4 : LetterCell(i) \in Letters \cup { NA }
        /\ ExcelRow[Len(ExcelRow)] = fn_in.last_analysis_date
        /\ ExcelRow = populate_row(RequestedOnly, metric_keys_str).row

C11_Witness ==
    /\ ExcelDone
    /\ fn_in.metrics = << Measure("new_coverage", <<"1">>), Measure("ncloc", <<"1","0","0">>) >>
    /\ ExcelRow[2 + 2] = PyInt(100)
    /\ ExcelRow[2 + 1] = NA
    /\ Len(ExcelRow) = 18

\* C12: a project whose last analysis date is null has "N/A" as its
\* last_analysis_date in the Excel detail row and in the UI row.
C12_NullDateIsNA ==
    fn_in.last_analysis_date = PyNone =>
        /\ ExcelDone => ExcelRow[Len(ExcelRow)] = NA
        /\ UiDone => fn_out.ui[1].row[1]["last_analysis_date"] = NA

LowerName(row) == lower(row[1].s)

PositionIn(rows, row) == CHOOSE i \in 1..Len(rows) : rows[i] = row

NamesOf(rows) == [i \in 1..Len(rows) |-> rows[i][1]]

\* C13: after sort_and_clear_sheet the data rows are in ascending order of
\* lower-cased project name, rows with equal lower-cased names keep their
\* original relative order, the header row is unchanged and the rows are a
\* permutation of the rows before; ["Banana","apple","Cherry"] comes out as
\* ["apple","Banana","Cherry"].
C13_SortedStablePermutation ==
    fn_out # << >> =>
        LET before == fn_in.rows
            after == fn_out[1].rows
        IN  /\ fn_out[1].headers = fn_in.headers
            /\ Len(after) = Len(before)
            /\ \A i \in 1..Len(before) : \E j \in 1..Len(after) : after[j] = before[i]
            /\ \A i, j \in 1..Len(after) :
                  i < j => /\ ~StrLt(LowerName(after[j]), LowerName(after[i]))
                           /\ LowerName(after[i]) = LowerName(after[j])
                                 => PositionIn(before, after[i]) < PositionIn(before, after[j])
            /\ NamesOf(before) = << ProjectPool[3].name, ProjectPool[1].name, ProjectPool[4].name >>
                  => NamesOf(after) = << ProjectPool[1].name, ProjectPool[3].name, ProjectPool[4].name >>

C13_Witness ==
    /\ fn_out # << >>
    /\ NamesOf(fn_in.rows) = << ProjectPool[3].name, ProjectPool[2].name, ProjectPool[1].name >>
    /\ NamesOf(fn_out[1].rows) = << ProjectPool[2].name, ProjectPool[1].name, ProjectPool[3].name >>

ProblemBuckets(dim) ==
    CASE dim = "quality_gate" -> { "ERROR" }
      [] dim = "coverage" -> { "< 10%", "10% - 30%", "30% - 50%", "50% - 80%" }
      [] dim = "duplication" -> { "3% - 5%", "5% - 10%", "10% - 20%", "> 20%" }
      [] OTHER -> { "B", "C", "D", "E" }

SummaryColumns == << "B", "C", "D", "E", "F", "G" >>

\* C14: a summary count is highlighted iff it is > 0 and its bucket is Failed
\* (quality gate), a coverage bucket other than "> 80%" and N/A, a duplication
\* bucket other than "< 3%" and N/A, or a rating B, C, D or E; the cells the
\* Excel conditional formatting fills are the cells of the buckets the UI
\* style functions highlight.
C14_ProblemHighlighting ==
    fn_out # << >> =>
        \A k \in 1..Len(SummaryLayout[fn_in.dim].labels) :
            LET label == SummaryLayout[fn_in.dim].labels[k]
                problem == fn_in.counts[label] > 0 /\ label \in ProblemBuckets(fn_in.dim)
            IN  /\ fn_out[1].table[k].count = fn_in.counts[label]
                /\ fn_out[1].ui[k] <=> problem
                /\ (<< SummaryColumns[k], SummaryLayout[fn_in.dim].row >> \in fn_out[1].excel)
                      <=> problem
                /\ (<< SummaryColumns[k], SummaryLayout[fn_in.dim].row >> \in fn_out[1].excel)
                      <=> fn_out[1].ui[k]

C14_Witness ==
    /\ fn_out # << >>
    /\ fn_in.dim = "coverage"
    /\ \A l \in LabelsOf("coverage") : fn_in.counts[l] = 1
    /\ fn_out[1].ui = << TRUE, TRUE, TRUE, TRUE, FALSE, FALSE >>
    /\ fn_out[1].excel = { << "B", 6 >>, << "C", 6 >>, << "D", 6 >>, << "E", 6 >> }

\* The strings of finite numbers among the inputs, each with the decimal
\* n / 10^k it is written as.
FiniteTable ==
    << << <<"3">>, 3, 0 >>,
       << <<"3",".","0">>, 3, 0 >>,
       << <<"3",".","7">>, 37, 1 >>,
       << <<"-","3",".","7">>, 0 - 37, 1 >>,
       << <<"6",".","0">>, 6, 0 >>,
       << <<"1","2",".","3","4","5">>, 12345, 3 >>,
       << <<"0",".","2","5">>, 25, 2 >>,
       << <<"9",".","9","6">>, 996, 2 >>,
       << <<"8","0">>, 80, 0 >>,
       << <<"8","5",".","0">>, 85, 0 >>,
       << <<".","5">>, 5, 1 >>,
       << <<"+","7">>, 7, 0 >>,
       << <<"1","e","2">>, 100, 0 >>,
       << <<"1","_","0">>, 10, 0 >>,
       << <<" ","4","2"," ">>, 42, 0 >>,
       << <<"9",".","9","5">>, 995, 2 >>,
       << <<"0",".","1","5">>, 15, 2 >>,
       << <<"0",".","4","5">>, 45, 2 >>,
       << <<"2",".","8","5","0","1">>, 28501, 4 >>,
       << <<"0",".","0","0","0","4">>, 4, 4 >>,
       << <<"-","0",".","0","4">>, 0 - 4, 2 >>,
       << <<"4","2","\r">>, 42, 0 >>,
       << <<"\f","4","2">>, 42, 0 >>,
       << <<Latin1[160],"7">>, 7, 0 >> >>

FiniteStrings == { FiniteTable[i][1] : i \in 1..Len(FiniteTable) }

UnparsableStrings == { << >>, <<"O","K">>, <<"a","b","c">> }

NotAvailableStrings == { S_NA, <<" ","n","/","a"," ">>, <<"N","/","A","\r">> }

DecimalOf(s) == FiniteTable[CHOOSE i \in 1..Len(FiniteTable) : FiniteTable[i][1] = s]

\* The number a finite string stands for, truncated toward zero.
Truncated(s) ==
    IF DecimalOf(s)[2] >= 0 THEN DecimalOf(s)[2] \div Pow10(DecimalOf(s)[3])
    ELSE 0 - ((0 - DecimalOf(s)[2]) \div Pow10(DecimalOf(s)[3]))

Abs(i) == IF i < 0 THEN 0 - i ELSE i

\* t tenths is a multiple of one tenth nearest to n / 10^k.
NearestTenth(t, n, k) == Abs(20 * n - 2 * t * Pow10(k)) <= Pow10(k)

\* The value of a finite float with at most one decimal, in tenths.
Tenths(v) == IF v.k = 0 THEN 10 * v.n ELSE v.n

\* C15: for every kind a null input or a string equal to "N/A" after trimming
\* and upper-casing yields "N/A"; for kind int a string of a finite number
\* yields the number truncated toward zero and a string that does not parse
\* yields "N/A"; for kind float with one place a string of a finite number
\* yields the number rounded to one decimal.
C15_NormalisedValue ==
    fn_out # << >> =>
        /\ (fn_in.value = PyNone \/ fn_in.value.s \in NotAvailableStrings)
              => fn_out[1] = [exc |-> "", v |-> NA]
        /\ (IsStr(fn_in.value) /\ fn_in.as_type = "int") =>
              /\ fn_in.value.s \in FiniteStrings
                    => fn_out[1] = [exc |-> "", v |-> PyInt(Truncated(fn_in.value.s))]
              /\ fn_in.value.s \in UnparsableStrings
                    => fn_out[1] = [exc |-> "", v |-> NA]
        /\ (IsStr(fn_in.value) /\ fn_in.as_type = "float" /\ fn_in.decimal_places = 1
               /\ fn_in.value.s \in FiniteStrings)
              => /\ fn_out[1].exc = ""
                 /\ IsFloat(fn_out[1].v)
                 /\ fn_out[1].v.c \in {"fin", "nzero"}
                 /\ fn_out[1].v.k <= 1
                 /\ NearestTenth(Tenths(fn_out[1].v), DecimalOf(fn_in.value.s)[2],
                                 DecimalOf(fn_in.value.s)[3])
                 /\ fn_in.value.s = <<"1","2",".","3","4","5">>
                       => fn_out[1].v = PyFloat(123, 1)

C15_Witness ==
    /\ fn_out # << >>
    /\ fn_in.value = PyStr(<<"-","3",".","7">>)
    /\ fn_in.as_type = "int"
    /\ fn_out[1].v = PyInt(0 - 3)

Stored == session_state.raw_projects_data_for_excel

\* C16: the summary made for the UI from the unsorted temporary sheet and the
\* Summary sheet made from the sorted detail sheet of the same stored records
\* hold the same total and the same count in every bucket of every dimension,
\* and the detail sheet still holds one row per stored record.
C16_SameAggregationTwice ==
    (excel_file # << >> /\ session_state.summary_data # << >>) =>
        /\ excel_file[1].summary.B2 = Summary.total_repos
        /\ \A d \in DimensionNames :
              \A k \in 1..Len(SummaryLayout[d].labels) :
                  excel_file[1].summary.counts[<< SummaryColumns[k], SummaryLayout[d].row >>]
                      = Summary[d][SummaryLayout[d].labels[k]]
        /\ Len(excel_file[1].sheet.rows) = Len(Stored)
        /\ excel_file[1].sheet.headers = create_headers(session_state.metric_keys)
        /\ \A i \in 1..Len(Stored) :
              \E j \in 1..Len(Stored) :
                  excel_file[1].sheet.rows[j] = populate_row(Stored[i], session_state.metric_keys).row

C16_Witness ==
    /\ excel_file # << >>
    /\ session_state.summary_data # << >>
    /\ Len(Stored) = 2
    /\ Stored[1].name = ProjectPool[3].name
    /\ excel_file[1].sheet.rows[1][1] = ProjectPool[1].name
    /\ Summary.total_repos = 2
    /\ Summary.quality_gate["OK"] = 1
    /\ Summary.quality_gate["ERROR"] = 1
    /\ excel_file[1].summary.counts[<< "C", 4 >>] = 1

CountOf(seq, x) == Cardinality({k \in 1..Len(seq) : seq[k] = x})

Failed(i) ==
    IF futures[i].state = "raised" THEN TRUE
    ELSE build_ui_row(futures[i].result[1], metric_keys_str).exc # ""

KeysOf(records) == [k \in 1..Len(records) |-> records[k].key]

UiKeysOf(rows) == [k \in 1..Len(rows) |-> rows[k]["Project Key"]]

BatchAccounted ==
    /\ session_state.data_fetched
    /\ \A i \in 1..Len(futures) :
          /\ futures[i].state # "pending"
          /\ CountOf(errors, i) = IF Failed(i) THEN 1 ELSE 0
          /\ ~Failed(i) =>
                /\ CountOf(KeysOf(Stored), projects[i].key) = 1
                /\ CountOf(UiKeysOf(session_state.projects_data_for_ui), projects[i].key) = 1
                /\ \E k \in 1..Len(Stored) : Stored[k] = futures[i].result[1]

\* C17: whatever tasks or row constructions raise, the fetch loop runs to
\* completion: every project that did not fail has its record among the
\* published results, each failure is reported once, and data_fetched is true.
C17_BatchCompletes ==
    (pc = "loop") ~> (pc = "display" /\ BatchAccounted)

C17_Witness ==
    /\ pc = "display"
    /\ Len(futures) = 2
    /\ futures[1].state = "raised"
    /\ futures[2].state = "done"
    /\ errors = << 1 >>
    /\ session_state.data_fetched
    /\ KeysOf(Stored) = << ProjectPool[2].key >>

\* ---- C18
\* The records of the finished tasks in the order of the listing: what the
\* loop collects when the tasks complete in the order they were submitted.
InListingOrder ==
    LET done == SelectSeq(futures, LAMBDA f : f.state = "done")
    IN  [k \in 1..Len(done) |-> done[k].result[1]]

CollectedWorkbook == build_workbook(Stored, session_state.metric_keys, ORG_NAME)

ListingWorkbook == build_workbook(InListingOrder, session_state.metric_keys, ORG_NAME)

\* C18: the outputs do not depend on the completion order of the tasks: once
\* a fetch loop has published its records, the workbook built from them has
\* the summary counts and the sorted detail rows, in the same order, of the
\* workbook built from the same records collected in listing order.
C18_CompletionOrderIrrelevant ==
    (/\ pc = "display"
     /\ futures # << >>
     /\ session_state.data_fetched
     /\ CollectedWorkbook.exc = "")
    => /\ ListingWorkbook.exc = ""
       /\ CollectedWorkbook.wb[1].summary = ListingWorkbook.wb[1].summary
       /\ CollectedWorkbook.wb[1].sheet.rows = ListingWorkbook.wb[1].sheet.rows

\* ---- C19
AllCompleted == \A i \in 1..Len(futures) : futures[i].state # "pending"

PublishedLists ==
    << session_state.projects_data_for_ui, session_state.raw_projects_data_for_excel >>

ResultLists == << projects_data_for_ui_raw, raw_projects_data_for_excel >>

\* C19: join before aggregation.  The display and download sections (where
\* generate_summary_data and generate_excel_file run) are entered, and the
\* summary and the workbook are produced, only when no submitted future is
\* pending; the record lists are published and data_fetched set only when
\* every future has completed and been consumed, and they are the lists of
\* the loop; a step of a worker (one that changes a future) leaves the
\* result lists unchanged.
C19_JoinBeforeAggregation ==
    [][ /\ pc' \in {"display", "download"} => AllCompleted'
        /\ (\/ session_state'.summary_data # session_state.summary_data
            \/ excel_file' # excel_file /\ excel_file' # << >>) => AllCompleted
        /\ (/\ session_state'.data_fetched
            /\ \/ ~session_state.data_fetched
               \/ PublishedLists' # PublishedLists)
           => /\ futures # << >>
              /\ AllCompleted
              /\ yielded = 1..Len(futures)
              /\ PublishedLists' = ResultLists
        /\ (futures # << >> /\ futures' # << >> /\ futures' # futures)
           => ResultLists' = ResultLists
      ]_vars

C19_Witness ==
    /\ pc = "display"
    /\ Len(futures) = 2
    /\ AllCompleted
    /\ futures[2].state = "done"
    /\ session_state.data_fetched
    /\ PublishedLists = ResultLists
    /\ Len(Stored) >= 1

\* ---- C20
\* generate_excel_file is called and gets as far as workbook.save.
ExportReachesSave ==
    /\ pc = "download"
    /\ Stored # << >>
    /\ CollectedWorkbook.exc = ""

SaveErrorReported == \E k \in 1..Len(errors) : errors[k] = 0

\* C20: export failure is contained.  Whenever generate_excel_file reaches
\* workbook.save, the script run ends without an exception and with
\* session_state (the stored tables and the records passed to the function)
\* unchanged, and either the workbook is returned and the download offered
\* with no error reported, or the save error is reported once, nothing is
\* returned and no download is offered.
C20_ExportFailureContained ==
    [][ ExportReachesSave =>
          /\ pc' = "idle"
          /\ crashed' = ""
          /\ session_state' = session_state
          /\ \/ /\ excel_file' = CollectedWorkbook.wb
                /\ download_offered'
                /\ errors' = errors
             \/ /\ excel_file' = << >>
                /\ ~download_offered'
                /\ errors' = Append(errors, 0)
      ]_vars

\* A run whose save failed: reported, no artifact, no download, no
\* exception, the stored tables in place.
C20_Witness ==
    /\ pc = "idle"
    /\ SaveErrorReported
    /\ excel_file = << >>
    /\ ~download_offered
    /\ crashed = ""
    /\ session_state.data_fetched
    /\ Stored # << >>
    /\ session_state.projects_data_for_ui # << >>
    /\ session_state.summary_data # << >>

\* ---- C21
\* A script run without the fetch button that shows the stored records: the
\* loop locals are empty, the summary of an earlier run is in session_state.
RerunOfStoredRecords ==
    /\ pc = "display"
    /\ futures = << >>
    /\ session_state.data_fetched
    /\ session_state.summary_data # << >>

\* C21: the summary depends only on the stored records and the organization
\* name of their fetch: a rerun that recomputes the summary of the stored
\* records stores the summary that was there, Application Name included,
\* and every workbook built has in B1 the Application Name of the summary
\* of its run.
C21_SummaryOfStoredRecordsStable ==
    [][ /\ (RerunOfStoredRecords /\ session_state'.summary_data # << >>)
              => session_state'.summary_data = session_state.summary_data
        /\ (pc = "download" /\ excel_file' # << >>)
              => excel_file'[1].summary.B1 = Summary.app_name
      ]_vars

\* ---- C22
\* C22: after the fetch loop the two published record lists hold the same
\* projects, one entry each, in the same order.
C22_SameProjectsInBothLists ==
    session_state.data_fetched =>
        UiKeysOf(session_state.projects_data_for_ui) = KeysOf(Stored)

\* ---- C23
AttentionDone == fn_out # << >> /\ fn_out[1].excel.exc = "" /\ fn_out[1].summary_data # << >>

AttentionSheet == fn_out[1].excel.wb[1].sheet

AttentionFlagged == fn_out[1].excel.wb[1].flagged

\* The cell of the N/A bucket of each dimension in the Summary sheet.
NotAvailableCells ==
    [ quality_gate |-> << "D", 4 >>, coverage |-> << "G", 6 >>,
      reliability |-> << "G", 8 >>, security |-> << "G", 9 >>,
      maintainability |-> << "G", 10 >>, hotspot |-> << "G", 11 >>,
      duplication |-> << "G", 13 >> ]

\* The bucket the count function of a dimension puts row i of the sheet in.
BucketOfRow(dim, sheet, i) ==
    LET cell(name) == sheet.rows[i][find_column_index(sheet, name)]
    IN  CASE dim = "quality_gate" -> quality_gate_bucket(cell("alert_status"))
          [] dim = "coverage" -> coverage_bucket(cell("coverage"))
          [] dim = "duplication" -> duplication_bucket(cell("duplicated_lines_density"))
          [] dim = "reliability" -> rating_bucket(cell(RatingHeaders[1]))
          [] dim = "security" -> rating_bucket(cell(RatingHeaders[2]))
          [] dim = "maintainability" -> rating_bucket(cell(RatingHeaders[3]))
          [] dim = "hotspot" -> rating_bucket(cell(RatingHeaders[4]))

\* C23: every detail row flagged by highlight_na_rows_excel is put in the
\* N/A bucket of each of the 7 dimensions, and the N/A count of each
\* dimension, in the summary of the display section and in the Summary
\* sheet, is at least the number of flagged rows.
C23_FlaggedRowsCountedAsNA ==
    AttentionDone =>
        \A dim \in DimensionNames :
            /\ \A i \in AttentionFlagged : BucketOfRow(dim, AttentionSheet, i) = "N/A"
            /\ fn_out[1].summary_data[1][dim]["N/A"] >= Cardinality(AttentionFlagged)
            /\ fn_out[1].excel.wb[1].summary.counts[NotAvailableCells[dim]]
                   >= Cardinality(AttentionFlagged)

\* Two flagged rows and one healthy row.
C23_Witness ==
    /\ AttentionDone
    /\ Len(AttentionSheet.rows) = 3
    /\ Cardinality(AttentionFlagged) = 2
    /\ fn_out[1].summary_data[1].coverage["N/A"] = 2
    /\ fn_out[1].summary_data[1].quality_gate["OK"] = 1

\* ---- C24
\* A script run that ends in the sidebar: the fetch button was pressed and
\* the run returned before the loop.  The globals are set only once the
\* inputs have passed validation.
ReturnsNoProjects == pc = "idle" /\ pc' = "idle" /\ ORG_NAME' # << >>

ReturnsInvalid == pc = "idle" /\ pc' = "idle" /\ ORG_NAME' = << >>

NothingAggregated ==
    /\ session_state'.summary_data = session_state.summary_data
    /\ ui_table' = << >>
    /\ excel_file' = << >>
    /\ ~download_offered'

\* C24: a fetch that finds no project sets data_fetched to false and starts
\* no task; while data_fetched is false no step aggregates or exports, and
\* data_fetched becomes true only at the end of a fetch loop over at least
\* one project, which sets it whatever the outcomes of the tasks; a
\* validation failure leaves session_state unchanged.
C24_BatchFailureGate ==
    [][ /\ ReturnsNoProjects =>
              /\ ~session_state'.data_fetched
              /\ futures' = << >>
              /\ PublishedLists' = PublishedLists
              /\ NothingAggregated
        /\ ReturnsInvalid => (session_state' = session_state /\ NothingAggregated)
        /\ ~session_state.data_fetched => NothingAggregated
        /\ (~session_state.data_fetched /\ session_state'.data_fetched)
              => (pc = "loop" /\ Len(projects) >= 1)
        /\ (pc = "loop" /\ pc' # "loop") => session_state'.data_fetched
      ]_vars

\* A rerun after a fetch that found no project, with the records and the
\* summary of an earlier fetch still stored.
C24_Witness ==
    /\ pc = "display"
    /\ ~session_state.data_fetched
    /\ Stored # << >>
    /\ session_state.summary_data # << >>
    /\ futures = << >>

====
